---- MODULE Spec2Model ----
(***************************************************************************)
(* Lock-free resizable RCU hash table (rculfhash.c) and the grace-period   *)
(* primitive (urcu.c).                                                     *)
(*                                                                         *)
(* The hash table is modelled at the granularity of its shared-memory      *)
(* accesses: every load of a next pointer, of size or of resize_target,    *)
(* and every cmpxchg, is one step of the thread that performs it; the      *)
(* thread-local computation that follows a load belongs to the same step.  *)
(* Machine words are HashBits wide.                                        *)
(***************************************************************************)
EXTENDS Integers, Sequences, FiniteSets, TLC

\* ------------------------------------------------------------------------
\* Bounds of the model
\* ------------------------------------------------------------------------
\* width of a hash / reverse-hash word (64 in the program)
HashBits == 2
\* largest table order populated (MAX_TABLE_ORDER is 64 in the program)
MaxOrder == 2
\* user nodes the callers own
NumNodes == 4
\* read-side critical sections each worker thread opens
MaxSections == 1

MaxOpsSeq == 4

MaxOpsReplace == 3

MaxOpsOther == 1
\* API calls each worker thread makes
MaxOps == 2
\* calls of cds_lfht_resize the resizing thread makes
MaxResizes == 1
\* CPUs of the machine, a power of two (nr_cpus_mask + 1)
NrCpus == 1

\* read-side critical sections the first reader enters, and the second
MaxReads == 2
MaxReadsOther == 1
\* calls of synchronize_rcu the writer makes
MaxSyncs == 2
\* calls of cds_lfht_destroy the destroying thread makes
MaxDestroys == 1
\* test_urcu_wfs: enqueuer threads, dequeuer threads, addresses malloc returns,
\* iterations of the loop of an enqueuer and of a dequeuer before the test is
\* stopped
MaxEnqueuers == 1
MaxDequeuers == 2
NumAddrs == 2
MaxPushes == 3
MaxLoops == 1

\* ------------------------------------------------------------------------
\* Program constants
\* ------------------------------------------------------------------------
MIN_TABLE_SIZE == 1
COUNT_COMMIT_ORDER == 10
CHAIN_LEN_TARGET == 1
CHAIN_LEN_RESIZE_THRESHOLD == 3

Pow2(n) == 2 ^ n

WordMax == Pow2(HashBits) - 1

\* ------------------------------------------------------------------------
\* Bit utilities
\* ------------------------------------------------------------------------
RECURSIVE RevBits(_, _)
RevBits(v, n) ==
    IF n = 0 THEN 0
    ELSE (v % 2) * Pow2(n - 1) + RevBits(v \div 2, n - 1)

bit_reverse_ulong(v) == RevBits(v % Pow2(HashBits), HashBits)

RECURSIVE fls_ulong(_)
fls_ulong(x) == IF x = 0 THEN 0 ELSE 1 + fls_ulong(x \div 2)

get_count_order_ulong(x) == IF x = 0 THEN -1 ELSE fls_ulong(x - 1)

max(a, b) == IF a > b THEN a ELSE b

min(a, b) == IF a < b THEN a ELSE b


\* ------------------------------------------------------------------------
\* Nodes, tagged pointers
\* ------------------------------------------------------------------------
Workers == {"w1", "w2"}

Resizer == "rs"

Threads == Workers \cup {Resizer}

\* keys the callers use; hash_fct is the caller's, here the low HashBits bits
Keys == {1, 3, 1 + Pow2(HashBits)}

hash_fct(key) == key % Pow2(HashBits)

\* the key the threads compete for
UniqueKeys == {1}

\* compare_fct returns 0 on equal keys
compare_fct(k1, k2) == IF k1 = k2 THEN 0 ELSE 1

NULL == <<"e", 0>>

\* the dummy node of hash index i: &ht->t.tbl[order]->nodes[...]
D(i) == <<"d", i>>

\* the n-th user node
U(n) == <<"u", n>>

DummyNodes == {D(i) : i \in 0 .. Pow2(MaxOrder) - 1}

UserNodes == {U(n) : n \in 1 .. NumNodes}

AllNodes == DummyNodes \cup UserNodes

IsDummyNode(n) == n[1] = "d"

IsUserNode(n) == n[1] = "u"

\* order of the level array holding dummy n
LevelOf(n) == fls_ulong(n[2])

\* a next pointer: address plus the REMOVED and DUMMY low bits
Ptr(n) == [p |-> n, rm |-> FALSE, dm |-> FALSE]

clear_flag(ptr) == ptr.p

is_removed(ptr) == ptr.rm

flag_removed(ptr) == [ptr EXCEPT !.rm = TRUE]

is_dummy(ptr) == ptr.dm

flag_dummy(ptr) == [ptr EXCEPT !.dm = TRUE]

get_end == Ptr(NULL)

is_end(ptr) == clear_flag(ptr) = NULL

\* lookup_bucket: the anchor dummy of hash under table width sz
lookup_bucket(sz, hash) ==
    LET index == hash % sz
        order == fls_ulong(index)
        aridx == IF order = 0 THEN 0 ELSE index % Pow2(order - 1)
    IN  D((IF order = 0 THEN 0 ELSE Pow2(order - 1)) + aridx)


\* ------------------------------------------------------------------------
\* State
\* ------------------------------------------------------------------------
VARIABLES
    node_next,          \* p.next of every node (tagged pointer)
    node_reverse_hash,  \* p.reverse_hash of every node
    node_key,           \* key of every user node (NoKey: not initialised)
    size,               \* ht->t.size
    resize_target,      \* ht->t.resize_target
    resize_initiated,   \* ht->t.resize_initiated
    tbl,                \* ht->t.tbl[order]: "null", "alloc" or "freed"
    in_progress_resize, \* ht->in_progress_resize
    in_progress_destroy,\* ht->in_progress_destroy
    resize_mutex,       \* owner of ht->resize_mutex, or "none"
    flags,              \* ht->flags: {} or {"AUTO_RESIZE"}
    count,              \* ht->count
    percpu_count,       \* ht->percpu_count: NoCounters or [cpu -> [add, del]]
    ht,                 \* "none", "new", "live", "invalid" (new returned NULL),
                        \* "destroying", "destroyed" (the handle is freed)
    th,                 \* locals of every thread
    rcu_nest,           \* read-side critical section depth of every thread
    rcu_offline,        \* thread declared offline to the quiescence primitive
    gp_wait,            \* per synchronizing thread: readers still waited for
    cb_queue,           \* callbacks given to call_rcu, oldest first: for each
                        \* the readers its grace period still waits for
    faults,             \* assertion failures and invalid dereferences so far
    urcu_gp_ctr,        \* urcu.c: global grace period counter
    urcu_active_readers,\* urcu.c: per-thread nesting count and parity
    registry,           \* urcu.c: registry[0 .. num_readers - 1], as thread ids
    alloc_readers,      \* urcu.c: slots of registry; 0 while registry is NULL
    urcu_mutex,         \* owner of urcu_mutex, or "none"
    sig_done,           \* urcu.c: handlers run since the last reset
    sig_pending,        \* threads with a SIGURCU not yet handled
    uth,                \* locals of every thread inside urcu.c
    wfs                 \* tests/test_urcu_wfs.c: options, flags, the stack,
                        \* the heap of nodes, locals of main and every thread

heap == <<node_next, node_reverse_hash, node_key>>

tvars == <<size, resize_target, resize_initiated, tbl>>

hvars == <<in_progress_resize, in_progress_destroy, resize_mutex, flags, ht>>

cvars == <<count, percpu_count>>

rcuvars == <<rcu_nest, rcu_offline, gp_wait, cb_queue>>

urcuvars == <<urcu_gp_ctr, urcu_active_readers, registry, alloc_readers,
              urcu_mutex, sig_done, sig_pending, uth>>

uvars == <<urcuvars, wfs>>

vars == <<node_next, node_reverse_hash, node_key, size, resize_target,
          resize_initiated, tbl, in_progress_resize, in_progress_destroy,
          resize_mutex, flags, count, percpu_count, ht, th, rcu_nest,
          rcu_offline, gp_wait, cb_queue, faults, urcu_gp_ctr,
          urcu_active_readers,
          registry, alloc_readers, urcu_mutex, sig_done, sig_pending, uth,
          wfs>>

NoKey == -1

\* ht->percpu_count when alloc_per_cpu_items_count left it NULL
NoCounters == [c \in {} |-> [add |-> 0, del |-> 0]]

ENOENT == 2

EPERM == 1

\* locals of a thread outside every operation; nops, nsect and nresize are the
\* calls, critical sections and resizes the thread may still begin
ThreadInit ==
    [pc |-> "idle", op |-> "none", node |-> NULL, key |-> NoKey, size |-> 0,
     lookup |-> NULL, iter_prev |-> NULL, iter |-> get_end, next |-> get_end,
     mode |-> "ADD_DEFAULT", dummy |-> FALSE, chain_len |-> 0,
     old_node |-> NULL, old_next |-> get_end,
     it_node |-> NULL, it_next |-> get_end,
     last |-> "none", ret |-> NULL, res |-> 0, nops |-> 0, nsect |-> 0,
     i |-> 0, j |-> 0, first_order |-> 0, end_order |-> 0, free_by_rcu |-> -1,
     caller |-> "none", nresize |-> 0, ndestroy |-> 0, hist |-> <<>>,
     approx_before |-> 0, count |-> 0, removed |-> 0, approx_after |-> 0,
     init_size |-> -1, new_size |-> -1, target_size |-> 0,
     pre |-> [live |-> 0, with |-> {}, count |-> 0, percpu |-> NoCounters,
              changed |-> FALSE, removed |-> FALSE, quiet |-> FALSE,
              calls |-> 0, nodes |-> {}, links |-> <<>>]]

\* a dereference of node n is valid when n is a user node or a dummy of an
\* allocated level array
Freed(n) == IsDummyNode(n) /\ tbl[LevelOf(n)] = "freed"

Unallocated(n) == n = NULL \/ (IsDummyNode(n) /\ tbl[LevelOf(n)] = "null")

Touch(S) ==
    faults \cup (IF \E n \in S : Freed(n) THEN {"use_after_free"} ELSE {})
           \cup (IF \E n \in S : Unallocated(n) THEN {"null_deref"} ELSE {})

\* assert(cond), recorded under name when it fails
Check(cond, name) == IF cond THEN {} ELSE {name}

RH(n) == node_reverse_hash[n]

KeyOf(n) == IF IsUserNode(n) THEN node_key[n] ELSE NoKey

\* ------------------------------------------------------------------------
\* The list as a reader sees it
\* ------------------------------------------------------------------------
RECURSIVE ChainFrom(_, _)
ChainFrom(n, fuel) ==
    IF n = NULL \/ fuel = 0 THEN <<>>
    ELSE <<n>> \o ChainFrom(clear_flag(node_next[n]), fuel - 1)

\* the nodes on the next chain that starts at the order-0 dummy
Chain == ChainFrom(D(0), Cardinality(AllNodes) + 1)

OnChain(n) == \E i \in 1 .. Len(Chain) : Chain[i] = n

\* user nodes that are linked and not logically removed
LiveNodes ==
    {n \in UserNodes : OnChain(n) /\ ~is_removed(node_next[n])}

LiveWithKey(k) == {n \in LiveNodes : node_key[n] = k}

\* the next pointer of the node the iterator of t holds is no longer the one
\* the iterator holds
IterChanged(t) ==
    th[t].it_node # NULL /\ node_next[th[t].it_node] # th[t].it_next

\* the node the iterator of t holds is flagged REMOVED
IterRemoved(t) ==
    th[t].it_node # NULL /\ is_removed(node_next[th[t].it_node])

RECURSIVE Sum(_, _)
Sum(f, S) ==
    IF S = {} THEN 0
    ELSE LET x == CHOOSE y \in S : TRUE IN f[x] + Sum(f, S \ {x})

\* the calls the threads other than t may still begin
OtherCalls(t) == Sum([u \in Threads |-> th[u].nops], Workers \ {t})

\* no thread other than t is inside a call
OthersQuiet(t) == \A u \in Workers \ {t} : th[u].op = "none"

\* what a call finds when it begins: the linked, non-removed user nodes, those
\* of them with key k, the item counters, for a call that takes an iterator
\* whether the node of the iterator got another successor or was removed
\* since the iterator was filled, for count_nodes, first and next whether the
\* other threads are outside every call and how many calls they may still
\* begin, and for first the linked, non-removed user nodes themselves and the
\* next pointers of all nodes
Walks == {"count_nodes", "first", "next"}

Snapshot(t, op, k) ==
    [live |-> Cardinality(LiveNodes), with |-> LiveWithKey(k), count |-> count,
     percpu |-> percpu_count,
     changed |-> op = "replace" /\ IterChanged(t),
     removed |-> op \in {"del", "replace"} /\ IterRemoved(t),
     quiet |-> op \in Walks /\ OthersQuiet(t),
     calls |-> IF op \in Walks THEN OtherCalls(t) ELSE 0,
     nodes |-> IF op = "first" THEN LiveNodes ELSE {},
     links |-> IF op = "first" THEN node_next ELSE <<>>]

\* the thread returns to its caller inside the read-side critical section; hist
\* is the record of the calls the thread made in this critical section
Return(r, ret, res) ==
    [r EXCEPT !.pc = "cs", !.last = r.op, !.op = "none", !.ret = ret, !.res = res,
              !.hist = Append(@, [op |-> r.op, key |-> r.key, node |-> r.node,
                                  old |-> r.old_node, size |-> r.size,
                                  pre |-> r.pre, ret |-> ret, res |-> res]),
              !.pre = ThreadInit.pre,
              !.node = NULL, !.key = NoKey, !.size = 0, !.lookup = NULL,
              !.iter_prev = NULL, !.iter = get_end, !.next = get_end,
              !.mode = "ADD_DEFAULT", !.dummy = FALSE, !.chain_len = 0,
              !.old_node = NULL, !.old_next = get_end]


\* ------------------------------------------------------------------------
\* _cds_lfht_add
\* ------------------------------------------------------------------------
\* the walk of _cds_lfht_add stops in front of iter (goto insert)
AddStopsAt(r) ==
    \/ is_end(r.iter)
    \/ RH(clear_flag(r.iter)) > RH(r.node)
    \/ (r.dummy /\ RH(clear_flag(r.iter)) = RH(r.node))

AddWalkPc(r) == IF AddStopsAt(r) THEN "add_insert" ELSE "add_next"

\* a key match that only ADD_UNIQUE looks for
AddKeyMatchUnique(r, next) ==
    /\ r.mode = "ADD_UNIQUE"
    /\ ~is_dummy(next)
    /\ RH(clear_flag(r.iter)) = RH(r.node)
    /\ compare_fct(KeyOf(r.node), KeyOf(clear_flag(r.iter))) = 0

\* ADD_UNIQUE / ADD_REPLACE found a node with the key of r.node
AddKeyMatch(r, next) ==
    /\ r.mode \in {"ADD_UNIQUE", "ADD_REPLACE"}
    /\ ~is_dummy(next)
    /\ RH(clear_flag(r.iter)) = RH(r.node)
    /\ compare_fct(KeyOf(r.node), KeyOf(clear_flag(r.iter))) = 0

\* the pointer that unlinks the removed node iter: its successor, with the
\* DUMMY bit of the pointer it replaces
GcNewNext(iter, next) ==
    IF is_dummy(iter) THEN flag_dummy(Ptr(clear_flag(next)))
    ELSE Ptr(clear_flag(next))

\* the next pointer a node gets when it is inserted in front of iter
InsertNodeNext(dummy, iter) ==
    IF dummy THEN flag_dummy(Ptr(clear_flag(iter))) ELSE Ptr(clear_flag(iter))

\* the value stored in iter_prev->p.next by the insert
\* an insert that stores the pointer to the new node without the flag of the
\* pointer it replaces
InsertNewNodePlain(node, iter) == Ptr(node)

InsertNewNode(node, iter) ==
    IF is_dummy(iter) THEN flag_dummy(Ptr(node)) ELSE Ptr(node)

\* every return of an add counted as an insertion
CountsAlways(r, ret) == r.op \in {"add", "add_unique", "add_replace"}

\* the add counts as an insertion for the split counter
CountsAsAdd(r, ret) ==
    \/ r.op = "add"
    \/ (r.op = "add_unique" /\ ret = r.node)
    \/ (r.op = "add_replace" /\ ret = NULL)

WalkCleared(r) ==
    [r EXCEPT !.lookup = NULL, !.iter_prev = NULL, !.iter = get_end,
              !.next = get_end, !.chain_len = 0, !.old_node = NULL,
              !.old_next = get_end]

\* _cds_lfht_add returns ret to cds_lfht_add*, or to the populate loop
AddRet(r, ret) ==
    IF r.op = "populate"
    THEN [WalkCleared(r) EXCEPT !.pc = "populate", !.j = r.j + 1]
    ELSE IF CountsAsAdd(r, ret) /\ percpu_count # NoCounters
         THEN [WalkCleared(r) EXCEPT !.pc = "count_add", !.ret = ret]
         ELSE Return(r, ret, 0)

\* _cds_lfht_gc_bucket returns
GcRet(r) ==
    CASE r.op = "remove" -> [WalkCleared(r) EXCEPT !.pc = "remove", !.j = r.j + 1]
      [] r.op = "del" ->
            IF percpu_count # NoCounters
            THEN [WalkCleared(r) EXCEPT !.pc = "count_del"]
            ELSE Return(r, NULL, 0)
      [] r.op = "add_replace" -> AddRet(r, r.old_node)
      [] OTHER -> Return(r, NULL, 0)

\* entry of _cds_lfht_add with size # 0: lookup_bucket, then the retry loop
AddEnter(r, sz, node, mode, dummy, rhash) ==
    [r EXCEPT !.pc = "add_head", !.size = sz, !.node = node, !.mode = mode,
              !.dummy = dummy,
              !.lookup = lookup_bucket(sz, bit_reverse_ulong(rhash))]

\* size << growth_order of the call of cds_lfht_resize_lazy that check_resize
\* makes for the chain length the walk has counted
LazyTarget(r) ==
    r.size * Pow2(get_count_order_ulong(r.chain_len - (CHAIN_LEN_TARGET - 1)))

\* check_resize(ht, size, chain_len) calls cds_lfht_resize_lazy; the table does
\* not grow beyond the order MaxOrder
CheckResize(r) ==
    /\ "AUTO_RESIZE" \in flags
    /\ count < Pow2(COUNT_COMMIT_ORDER)
    /\ r.chain_len >= CHAIN_LEN_RESIZE_THRESHOLD
    /\ LazyTarget(r) <= Pow2(MaxOrder)

\* iter_prev = lookup; iter = rcu_dereference(iter_prev->p.next)
AddHead(t) ==
    /\ th[t].pc = "add_head"
    /\ LET r  == th[t]
           r1 == [r EXCEPT !.iter_prev = r.lookup,
                           !.iter = node_next[r.lookup], !.chain_len = 0]
       IN  /\ th' = [th EXCEPT ![t] = [r1 EXCEPT !.pc = AddWalkPc(r1)]]
           /\ faults' = Touch({r.lookup, clear_flag(r1.iter)} \ {NULL})
                          \cup Check(RH(r.lookup) <= RH(r.node), "add_prev_order")
    /\ UNCHANGED <<heap, tvars, hvars, cvars, rcuvars>>
    /\ UNCHANGED uvars

\* next = rcu_dereference(clear_flag(iter)->p.next) and the rest of the loop body
AddNext(t) ==
    /\ th[t].pc = "add_next"
    /\ LET r    == th[t]
           next == node_next[clear_flag(r.iter)]
           cl   == IF RH(r.iter_prev) # RH(clear_flag(r.iter)) /\ ~is_dummy(next)
                   THEN r.chain_len + 1 ELSE r.chain_len
           r1   == [r EXCEPT !.iter_prev = clear_flag(r.iter), !.iter = next,
                             !.next = next, !.chain_len = cl]
       IN  /\ th' = [th EXCEPT ![t] =
                  IF is_removed(next)
                  THEN [r EXCEPT !.next = next, !.pc = "add_gc"]
                  ELSE IF AddKeyMatch(r, next)
                  THEN IF r.mode = "ADD_UNIQUE"
                       THEN AddRet(r, clear_flag(r.iter))
                       ELSE [r EXCEPT !.next = next, !.pc = "repl_cas",
                                      !.old_node = clear_flag(r.iter),
                                      !.old_next = next]
                  ELSE IF cl # r.chain_len /\ CheckResize(r1)
                  THEN [r1 EXCEPT !.pc = "lazy_read_target"]
                  ELSE [r1 EXCEPT !.pc = AddWalkPc(r1)]]
           /\ faults' = Touch({clear_flag(r.iter), clear_flag(next)} \ {NULL})
    /\ UNCHANGED <<heap, tvars, hvars, cvars, rcuvars>>
    /\ UNCHANGED uvars

\* an insert that stores the new node without comparing
AddInsertBlind(t) ==
    /\ th[t].pc = "add_insert"
    /\ LET r  == th[t]
           mine == [node_next EXCEPT ![r.node] = InsertNodeNext(r.dummy, r.iter)]
       IN  /\ node_next' = [mine EXCEPT ![r.iter_prev] =
                                            InsertNewNode(r.node, r.iter)]
           /\ th' = [th EXCEPT ![t] =
                  AddRet(r, IF r.mode = "ADD_REPLACE" THEN NULL ELSE r.node)]
           /\ faults' = Touch({r.iter_prev})
    /\ UNCHANGED <<node_reverse_hash, node_key, tvars, hvars, cvars, rcuvars>>
    /\ UNCHANGED uvars

\* insert: node->p.next = iter; cmpxchg(&iter_prev->p.next, iter, new_node)
AddInsert(t) ==
    /\ th[t].pc = "add_insert"
    /\ LET r  == th[t]
           ok == node_next[r.iter_prev] = r.iter
           mine == [node_next EXCEPT ![r.node] = InsertNodeNext(r.dummy, r.iter)]
       IN  /\ node_next' = IF ok
                           THEN [mine EXCEPT ![r.iter_prev] =
                                                 InsertNewNode(r.node, r.iter)]
                           ELSE mine
           /\ th' = [th EXCEPT ![t] =
                  IF ok
                  THEN AddRet(r, IF r.mode = "ADD_REPLACE" THEN NULL ELSE r.node)
                  ELSE [r EXCEPT !.pc = "add_head"]]
           /\ faults' = Touch({r.iter_prev})
                          \cup Check(r.node # clear_flag(r.iter), "add_node_is_iter")
                          \cup Check(~is_removed(r.iter), "add_iter_removed")
                          \cup Check(r.iter_prev # r.node, "add_prev_is_node")
    /\ UNCHANGED <<node_reverse_hash, node_key, tvars, hvars, cvars, rcuvars>>
    /\ UNCHANGED uvars

\* gc_node that retries without unlinking the removed node
AddGcRetryOnly(t) ==
    /\ th[t].pc = "add_gc"
    /\ th' = [th EXCEPT ![t] = [th[t] EXCEPT !.pc = "add_head"]]
    /\ UNCHANGED <<heap, tvars, hvars, cvars, rcuvars, faults>>
    /\ UNCHANGED uvars

\* gc_node: unlink the logically removed node iter, then retry
AddGc(t) ==
    /\ th[t].pc = "add_gc"
    /\ LET r  == th[t]
           ok == node_next[r.iter_prev] = r.iter
       IN  /\ node_next' = IF ok
                           THEN [node_next EXCEPT ![r.iter_prev] =
                                                      GcNewNext(r.iter, r.next)]
                           ELSE node_next
           /\ th' = [th EXCEPT ![t] = [r EXCEPT !.pc = "add_head"]]
           /\ faults' = Touch({r.iter_prev})
                          \cup Check(~is_removed(r.iter), "add_gc_iter_removed")
    /\ UNCHANGED <<node_reverse_hash, node_key, tvars, hvars, cvars, rcuvars>>
    /\ UNCHANGED uvars

\* ------------------------------------------------------------------------
\* _cds_lfht_gc_bucket(dummy = lookup, node)
\* ------------------------------------------------------------------------
GcStopsAt(r) ==
    \/ is_end(r.iter)
    \/ RH(clear_flag(r.iter)) > RH(r.node)

GcEnter(r, dummy) ==
    [r EXCEPT !.pc = "gc_head", !.lookup = dummy]

GcHead(t) ==
    /\ th[t].pc = "gc_head"
    /\ LET r  == th[t]
           r1 == [r EXCEPT !.iter_prev = r.lookup, !.iter = node_next[r.lookup]]
       IN  /\ th' = [th EXCEPT ![t] =
                  IF GcStopsAt(r1) THEN GcRet(r1) ELSE [r1 EXCEPT !.pc = "gc_next"]]
           /\ faults' = Touch({r.lookup, clear_flag(r1.iter)} \ {NULL})
                          \cup Check(RH(r.lookup) <= RH(r.node), "gc_prev_order")
                          \cup Check(r.lookup # r.node, "gc_dummy_is_node")
    /\ UNCHANGED <<heap, tvars, hvars, cvars, rcuvars>>
    /\ UNCHANGED uvars

GcNext(t) ==
    /\ th[t].pc = "gc_next"
    /\ LET r    == th[t]
           next == node_next[clear_flag(r.iter)]
           r1   == [r EXCEPT !.iter_prev = clear_flag(r.iter), !.iter = next,
                             !.next = next]
       IN  /\ th' = [th EXCEPT ![t] =
                  IF is_removed(next)
                  THEN [r EXCEPT !.next = next, !.pc = "gc_cas"]
                  ELSE IF GcStopsAt(r1) THEN GcRet(r1)
                  ELSE [r1 EXCEPT !.pc = "gc_next"]]
           /\ faults' = Touch({clear_flag(r.iter), clear_flag(next)} \ {NULL})
    /\ UNCHANGED <<heap, tvars, hvars, cvars, rcuvars>>
    /\ UNCHANGED uvars

GcCas(t) ==
    /\ th[t].pc = "gc_cas"
    /\ LET r  == th[t]
           ok == node_next[r.iter_prev] = r.iter
           nn == IF is_removed(r.iter)
                 THEN flag_removed(GcNewNext(r.iter, r.next))
                 ELSE GcNewNext(r.iter, r.next)
       IN  /\ node_next' = IF ok THEN [node_next EXCEPT ![r.iter_prev] = nn]
                           ELSE node_next
           /\ th' = [th EXCEPT ![t] = [r EXCEPT !.pc = "gc_head"]]
           /\ faults' = Touch({r.iter_prev})
                          \cup Check(~is_removed(r.iter), "gc_iter_removed")
    /\ UNCHANGED <<node_reverse_hash, node_key, tvars, hvars, cvars, rcuvars>>
    /\ UNCHANGED uvars


\* ------------------------------------------------------------------------
\* _cds_lfht_replace(old_node, old_next, new_node = node)
\* ------------------------------------------------------------------------
\* _cds_lfht_replace returns -ENOENT
ReplaceFail(r) ==
    IF r.op = "add_replace"
    THEN [r EXCEPT !.pc = "add_head", !.old_node = NULL, !.old_next = get_end]
    ELSE Return(r, NULL, -ENOENT)

\* a replace that stores the flagged pointer whatever old_node->p.next holds
ReplaceCasForce(t) ==
    /\ th[t].pc = "repl_cas"
    /\ LET r    == th[t]
           mine == [node_next EXCEPT ![r.node] = Ptr(clear_flag(r.old_next))]
       IN  /\ node_next' = [mine EXCEPT ![r.old_node] = flag_removed(Ptr(r.node))]
           /\ th' = [th EXCEPT ![t] =
                  GcEnter(r, lookup_bucket(r.size,
                                 bit_reverse_ulong(RH(r.old_node))))]
           /\ faults' = Touch({r.old_node})
    /\ UNCHANGED <<node_reverse_hash, node_key, tvars, hvars, cvars, rcuvars>>
    /\ UNCHANGED uvars

\* a replace that stores the pointer to the new node without the REMOVED flag
ReplaceCasUnflagged(t) ==
    /\ th[t].pc = "repl_cas"
    /\ LET r   == th[t]
           cur == node_next[r.old_node]
           ok  == cur = r.old_next
           mine == [node_next EXCEPT ![r.node] = Ptr(clear_flag(r.old_next))]
       IN  /\ node_next' = IF ok
                           THEN [mine EXCEPT ![r.old_node] = Ptr(r.node)]
                           ELSE mine
           /\ th' = [th EXCEPT ![t] =
                  IF ok
                  THEN GcEnter(r, lookup_bucket(r.size,
                                       bit_reverse_ulong(RH(r.old_node))))
                  ELSE IF is_removed(cur) THEN ReplaceFail(r)
                  ELSE [r EXCEPT !.old_next = cur]]
           /\ faults' = Touch({r.old_node})
    /\ UNCHANGED <<node_reverse_hash, node_key, tvars, hvars, cvars, rcuvars>>
    /\ UNCHANGED uvars

\* a replace that gives up when old_node->p.next is not the pointer it expects
ReplaceCasOnce(t) ==
    /\ th[t].pc = "repl_cas"
    /\ LET r   == th[t]
           cur == node_next[r.old_node]
           ok  == cur = r.old_next
           mine == [node_next EXCEPT ![r.node] = Ptr(clear_flag(r.old_next))]
       IN  /\ node_next' = IF ok
                           THEN [mine EXCEPT ![r.old_node] =
                                                 flag_removed(Ptr(r.node))]
                           ELSE mine
           /\ th' = [th EXCEPT ![t] =
                  IF ok
                  THEN GcEnter(r, lookup_bucket(r.size,
                                       bit_reverse_ulong(RH(r.old_node))))
                  ELSE ReplaceFail(r)]
           /\ faults' = Touch({r.old_node})
    /\ UNCHANGED <<node_reverse_hash, node_key, tvars, hvars, cvars, rcuvars>>
    /\ UNCHANGED uvars

\* new_node->p.next = old_next; cmpxchg(&old_node->p.next, old_next, removed|new_node)
ReplaceCas(t) ==
    /\ th[t].pc = "repl_cas"
    /\ LET r   == th[t]
           cur == node_next[r.old_node]
           ok  == cur = r.old_next
           mine == [node_next EXCEPT ![r.node] = Ptr(clear_flag(r.old_next))]
       IN  /\ node_next' = IF ok
                           THEN [mine EXCEPT ![r.old_node] =
                                                 flag_removed(Ptr(r.node))]
                           ELSE mine
           /\ th' = [th EXCEPT ![t] =
                  IF ok
                  THEN GcEnter(r, lookup_bucket(r.size,
                                       bit_reverse_ulong(RH(r.old_node))))
                  ELSE IF is_removed(cur) THEN ReplaceFail(r)
                  ELSE [r EXCEPT !.old_next = cur]]
           /\ faults' = Touch({r.old_node})
                          \cup Check(~is_dummy(r.old_next), "replace_next_dummy")
                          \cup Check(r.node # clear_flag(r.old_next),
                                     "replace_new_is_next")
    /\ UNCHANGED <<node_reverse_hash, node_key, tvars, hvars, cvars, rcuvars>>
    /\ UNCHANGED uvars

\* ------------------------------------------------------------------------
\* _cds_lfht_del(node, dummy_removal = (op = "remove"))
\* ------------------------------------------------------------------------
\* a failed delete that goes on to ht_count_del
DelFailCounted(r) ==
    IF r.op = "remove" THEN [WalkCleared(r) EXCEPT !.pc = "remove", !.j = r.j + 1]
    ELSE IF percpu_count # NoCounters THEN [WalkCleared(r) EXCEPT !.pc = "count_del"]
    ELSE Return(r, NULL, -ENOENT)

DelFail(r) ==
    IF r.op = "remove" THEN [WalkCleared(r) EXCEPT !.pc = "remove", !.j = r.j + 1]
    ELSE Return(r, NULL, -ENOENT)

DelAsserts(r, next) ==
    IF r.op = "remove" THEN Check(is_dummy(next), "del_dummy_expected")
    ELSE Check(~is_dummy(next), "del_dummy_unexpected")

\* old = rcu_dereference(node->p.next)
DelRead(t) ==
    /\ th[t].pc = "del_read"
    /\ LET r    == th[t]
           next == node_next[r.node]
       IN  /\ th' = [th EXCEPT ![t] =
                  IF is_removed(next) THEN DelFail(r)
                  ELSE [r EXCEPT !.next = next, !.pc = "del_cas"]]
           /\ faults' = Touch({r.node})
                          \cup (IF is_removed(next) THEN {} ELSE DelAsserts(r, next))
    /\ UNCHANGED <<heap, tvars, hvars, cvars, rcuvars>>
    /\ UNCHANGED uvars

\* a delete that reports success without storing the REMOVED flag
DelCasKeep(t) ==
    /\ th[t].pc = "del_cas"
    /\ LET r   == th[t]
           cur == node_next[r.node]
           ok  == cur = r.next
       IN  /\ th' = [th EXCEPT ![t] =
                  IF ok
                  THEN GcEnter(r, lookup_bucket(r.size,
                                       bit_reverse_ulong(RH(r.node))))
                  ELSE IF is_removed(cur) THEN DelFail(r)
                  ELSE [r EXCEPT !.next = cur]]
           /\ faults' = Touch({r.node})
    /\ UNCHANGED <<heap, tvars, hvars, cvars, rcuvars>>
    /\ UNCHANGED uvars

\* old = uatomic_cmpxchg(&node->p.next, next, flag_removed(next))
DelCas(t) ==
    /\ th[t].pc = "del_cas"
    /\ LET r   == th[t]
           cur == node_next[r.node]
           ok  == cur = r.next
       IN  /\ node_next' = IF ok
                           THEN [node_next EXCEPT ![r.node] = flag_removed(r.next)]
                           ELSE node_next
           /\ th' = [th EXCEPT ![t] =
                  IF ok
                  THEN GcEnter(r, lookup_bucket(r.size,
                                       bit_reverse_ulong(RH(r.node))))
                  ELSE IF is_removed(cur) THEN DelFail(r)
                  ELSE [r EXCEPT !.next = cur]]
           /\ faults' = Touch({r.node})
                          \cup (IF ok \/ is_removed(cur) THEN {}
                                ELSE DelAsserts(r, cur))
    /\ UNCHANGED <<node_reverse_hash, node_key, tvars, hvars, cvars, rcuvars>>
    /\ UNCHANGED uvars

\* ------------------------------------------------------------------------
\* cds_lfht_lookup
\* ------------------------------------------------------------------------
LookupRH(r) == bit_reverse_ulong(hash_fct(r.key))

\* a lookup walk that also ends at the first node of the reverse hash
LookupStopsAtEq(r, node) ==
    \/ node = NULL
    \/ RH(node) >= LookupRH(r)

\* the walk of cds_lfht_lookup ends without a match at node
LookupStopsAt(r, node) ==
    \/ node = NULL
    \/ RH(node) > LookupRH(r)

LookupMatch(r, node, next) ==
    /\ ~is_removed(next)
    /\ ~is_dummy(next)
    /\ RH(node) = LookupRH(r)
    /\ compare_fct(KeyOf(node), r.key) = 0

\* iter->node = node; iter->next = next
LookupRet(r, node, next) ==
    [Return(r, node, 0) EXCEPT !.it_node = node, !.it_next = next]

LookupHead(t) ==
    /\ th[t].pc = "lk_head"
    /\ LET r    == th[t]
           node == clear_flag(node_next[r.lookup])
       IN  /\ th' = [th EXCEPT ![t] =
                  IF LookupStopsAt(r, node) THEN LookupRet(r, NULL, get_end)
                  ELSE [r EXCEPT !.node = node, !.pc = "lk_next"]]
           /\ faults' = Touch({r.lookup, node} \ {NULL})
    /\ UNCHANGED <<heap, tvars, hvars, cvars, rcuvars>>
    /\ UNCHANGED uvars

LookupNext(t) ==
    /\ th[t].pc = "lk_next"
    /\ LET r    == th[t]
           next == node_next[r.node]
           node == clear_flag(next)
       IN  /\ th' = [th EXCEPT ![t] =
                  IF LookupMatch(r, r.node, next) THEN LookupRet(r, r.node, next)
                  ELSE IF LookupStopsAt(r, node) THEN LookupRet(r, NULL, get_end)
                  ELSE [r EXCEPT !.node = node]]
           /\ faults' = Touch({r.node, node} \ {NULL})
    /\ UNCHANGED <<heap, tvars, hvars, cvars, rcuvars>>
    /\ UNCHANGED uvars


\* ------------------------------------------------------------------------
\* Read-side critical sections and grace periods (contract of the
\* quiescence primitive the table is given at creation)
\* ------------------------------------------------------------------------
\* synchronize begins: the readers that are inside a critical section now
GpSnapshot(t) == {u \in Threads \ {t} : rcu_nest[u] > 0}

\* a reader leaves its critical section: no synchronizer waits for it any more
GpLeave(t) == [s \in Threads |-> gp_wait[s] \ {t}]

\* ... and no queued callback waits for it any more
CbLeave(t) == [i \in DOMAIN cb_queue |-> cb_queue[i] \ {t}]

RcuReadLock(t) ==
    /\ t \in Workers
    /\ ht = "live"
    /\ th[t].pc = "idle"
    /\ th[t].nsect > 0
    /\ rcu_nest' = [rcu_nest EXCEPT ![t] = 1]
    /\ th' = [th EXCEPT ![t] = [@ EXCEPT !.pc = "cs", !.nsect = @ - 1]]
    /\ UNCHANGED <<heap, tvars, hvars, cvars, rcu_offline, gp_wait, cb_queue,
                   faults>>
    /\ UNCHANGED uvars

RcuReadUnlock(t) ==
    /\ t \in Workers
    /\ th[t].pc = "cs"
    /\ rcu_nest' = [rcu_nest EXCEPT ![t] = 0]
    /\ gp_wait' = GpLeave(t)
    /\ cb_queue' = CbLeave(t)
    /\ th' = [th EXCEPT ![t] =
                 [ThreadInit EXCEPT !.nsect = th[t].nsect,
                                    !.nops = IF th[t].nsect = 0 THEN 0
                                             ELSE th[t].nops]]
    /\ UNCHANGED <<heap, tvars, hvars, cvars, rcu_offline, faults>>
    /\ UNCHANGED uvars

\* ------------------------------------------------------------------------
\* cds_lfht_add, cds_lfht_add_unique, cds_lfht_add_replace, cds_lfht_lookup,
\* cds_lfht_del, cds_lfht_replace
\* ------------------------------------------------------------------------
ModeOf(op) ==
    CASE op = "add_unique" -> "ADD_UNIQUE"
      [] op = "add_replace" -> "ADD_REPLACE"
      [] OTHER -> "ADD_DEFAULT"

\* the node the caller initialises next
FreeNodes == {n \in UserNodes : node_key[n] = NoKey}

\* no call has taken a node yet
NoCallYet == FreeNodes = UserNodes

\* the call that t begins is the last one it may begin
LastOfCalls(t) == th[t].nops = 1

FreshNode == CHOOSE n \in FreeNodes : \A m \in FreeNodes : n[2] <= m[2]

\* a call begins inside the critical section of t
Begin(t, op, k) ==
    [th[t] EXCEPT !.op = op, !.nops = @ - 1, !.last = "none", !.ret = NULL,
                  !.res = 0, !.key = k, !.pre = Snapshot(t, op, k)]

CanCall(t) ==
    /\ t \in Workers
    /\ th[t].pc = "cs"
    /\ th[t].nops > 0

\* reverse_hash = bit_reverse(hash_fct(key)); size = rcu_dereference(ht->t.size);
\* _cds_lfht_add(ht, size, node, mode, 0)
ApiAdd(t, op, k) ==
    /\ CanCall(t)
    /\ FreeNodes # {}
    /\ LET n  == FreshNode
           rh == bit_reverse_ulong(hash_fct(k))
       IN  /\ node_key' = [node_key EXCEPT ![n] = k]
           /\ node_reverse_hash' = [node_reverse_hash EXCEPT ![n] = rh]
           /\ th' = [th EXCEPT ![t] =
                        AddEnter(Begin(t, op, k), size, n, ModeOf(op), FALSE, rh)]
    /\ UNCHANGED <<node_next, tvars, hvars, cvars, rcuvars, faults>>
    /\ UNCHANGED uvars

ApiLookup(t, k) ==
    /\ CanCall(t)
    /\ th' = [th EXCEPT ![t] =
                 [Begin(t, "lookup", k) EXCEPT !.pc = "lk_head",
                      !.size = size,
                      !.lookup = lookup_bucket(size, hash_fct(k))]]
    /\ UNCHANGED <<heap, tvars, hvars, cvars, rcuvars, faults>>
    /\ UNCHANGED uvars

\* size = rcu_dereference(ht->t.size); _cds_lfht_del(ht, size, iter->node, 0)
ApiDel(t) ==
    /\ CanCall(t)
    /\ LET r == [Begin(t, "del", KeyOf(th[t].it_node)) EXCEPT
                     !.size = size, !.node = th[t].it_node]
       IN  th' = [th EXCEPT ![t] =
                     IF r.node = NULL THEN Return(r, NULL, -ENOENT)
                     ELSE [r EXCEPT !.pc = "del_read"]]
    /\ UNCHANGED <<heap, tvars, hvars, cvars, rcuvars, faults>>
    /\ UNCHANGED uvars

\* _cds_lfht_replace(ht, size, old_iter->node, old_iter->next, new_node): the
\* caller gave new_node the key k of the node it replaces; p.reverse_hash of
\* new_node holds v, being set nowhere
ApiReplace(t, k, v) ==
    /\ CanCall(t)
    /\ FreeNodes # {}
    /\ th[t].it_node # NULL => k = KeyOf(th[t].it_node)
    /\ LET n == FreshNode
           r == [Begin(t, "replace", k) EXCEPT !.size = size, !.node = n,
                     !.old_node = th[t].it_node, !.old_next = th[t].it_next]
       IN  /\ node_key' = [node_key EXCEPT ![n] = k]
           /\ node_reverse_hash' = [node_reverse_hash EXCEPT ![n] = v]
           /\ th' = [th EXCEPT ![t] =
                        IF r.old_node = NULL \/ is_removed(r.old_next)
                        THEN Return(r, NULL, -ENOENT)
                        ELSE [r EXCEPT !.pc = "repl_cas"]]
    /\ UNCHANGED <<node_next, tvars, hvars, cvars, rcuvars, faults>>
    /\ UNCHANGED uvars

\* cds_lfht_first: iter->next = lookup->next of the order-0 dummy, then
\* cds_lfht_next
ApiFirst(t) ==
    /\ CanCall(t)
    /\ th' = [th EXCEPT ![t] =
                 [Begin(t, "first", NoKey) EXCEPT !.pc = "nx_walk",
                      !.node = clear_flag(node_next[D(0)])]]
    /\ faults' = Touch({D(0)})
    /\ UNCHANGED <<heap, tvars, hvars, cvars, rcuvars>>
    /\ UNCHANGED uvars

\* the iterator was set by a lookup or a traversal of this critical section
IterSet(t) ==
    \E i \in 1 .. Len(th[t].hist) : th[t].hist[i].op \in {"lookup", "first", "next"}

\* cds_lfht_next: node = clear_flag(iter->next)
ApiNext(t) ==
    /\ CanCall(t)
    /\ IterSet(t)
    /\ th' = [th EXCEPT ![t] =
                 [Begin(t, "next", NoKey) EXCEPT !.pc = "nx_walk",
                      !.node = clear_flag(th[t].it_next)]]
    /\ UNCHANGED <<heap, tvars, hvars, cvars, rcuvars, faults>>
    /\ UNCHANGED uvars

\* a loop that skips the dummy nodes only
NextWalkRemoved(t) ==
    /\ th[t].pc = "nx_walk"
    /\ LET r    == th[t]
           next == node_next[r.node]
       IN  IF r.node = NULL
           THEN /\ th' = [th EXCEPT ![t] = LookupRet(r, NULL, get_end)]
                /\ UNCHANGED faults
           ELSE /\ th' = [th EXCEPT ![t] =
                       IF ~is_dummy(next)
                       THEN LookupRet(r, r.node, next)
                       ELSE [r EXCEPT !.node = clear_flag(next)]]
                /\ faults' = Touch({r.node})
    /\ UNCHANGED <<heap, tvars, hvars, cvars, rcuvars>>
    /\ UNCHANGED uvars

\* loop of cds_lfht_next
NextWalk(t) ==
    /\ th[t].pc = "nx_walk"
    /\ LET r    == th[t]
           next == node_next[r.node]
       IN  IF r.node = NULL
           THEN /\ th' = [th EXCEPT ![t] = LookupRet(r, NULL, get_end)]
                /\ UNCHANGED faults
           ELSE /\ th' = [th EXCEPT ![t] =
                       IF ~is_removed(next) /\ ~is_dummy(next)
                       THEN LookupRet(r, r.node, next)
                       ELSE [r EXCEPT !.node = clear_flag(next)]]
                /\ faults' = Touch({r.node})
    /\ UNCHANGED <<heap, tvars, hvars, cvars, rcuvars>>
    /\ UNCHANGED uvars

\* ------------------------------------------------------------------------
\* ht_count_add, ht_count_del
\* ------------------------------------------------------------------------
Cpus == 0 .. NrCpus - 1

\* the cells ht->percpu_count[0 .. nr_cpus_mask] of the table
Cells == DOMAIN percpu_count

IsPow2(x) == x > 0 /\ \E k \in 0 .. 20 : x = Pow2(k)

\* !(count & (count - 1)), which also holds of 0
CountIsPow2(c) == c = 0 \/ IsPow2(c)

\* percpu_count = uatomic_add_return(&ht->percpu_count[cpu].add, 1)
CountAdd(t) ==
    /\ th[t].pc = "count_add"
    /\ \E cpu \in Cells :
          LET c == percpu_count[cpu].add + 1
          IN  /\ percpu_count' = [percpu_count EXCEPT ![cpu].add = c]
              /\ th' = [th EXCEPT ![t] =
                           IF c % Pow2(COUNT_COMMIT_ORDER) = 0
                           THEN [th[t] EXCEPT !.pc = "count_add_fold"]
                           ELSE Return(th[t], th[t].ret, 0)]
    /\ UNCHANGED <<heap, tvars, hvars, count, rcuvars, faults>>
    /\ UNCHANGED uvars

\* a fold that adds twice the delta to the global count
CountAddFoldTwice(t) ==
    /\ th[t].pc = "count_add_fold"
    /\ count' = count + 2 * Pow2(COUNT_COMMIT_ORDER)
    /\ th' = [th EXCEPT ![t] = Return(th[t], th[t].ret, 0)]
    /\ UNCHANGED <<heap, tvars, hvars, percpu_count, rcuvars, faults>>
    /\ UNCHANGED uvars

\* count = uatomic_add_return(&ht->count, 1UL << COUNT_COMMIT_ORDER)
CountAddFold(t) ==
    /\ th[t].pc = "count_add_fold"
    /\ LET c == count + Pow2(COUNT_COMMIT_ORDER)
       IN  /\ count' = c
           /\ th' = [th EXCEPT ![t] =
                        IF CountIsPow2(c)
                           /\ c \div Pow2(CHAIN_LEN_RESIZE_THRESHOLD) >= th[t].size
                        THEN [th[t] EXCEPT !.pc = "resize_lazy_count",
                                 !.target_size = c \div Pow2(CHAIN_LEN_TARGET - 1)]
                        ELSE Return(th[t], th[t].ret, 0)]
    /\ UNCHANGED <<heap, tvars, hvars, percpu_count, rcuvars, faults>>
    /\ UNCHANGED uvars

\* percpu_count = uatomic_add_return(&ht->percpu_count[cpu].del, 1)
CountDel(t) ==
    /\ th[t].pc = "count_del"
    /\ \E cpu \in Cells :
          LET c == percpu_count[cpu].del + 1
          IN  /\ percpu_count' = [percpu_count EXCEPT ![cpu].del = c]
              /\ th' = [th EXCEPT ![t] =
                           IF c % Pow2(COUNT_COMMIT_ORDER) = 0
                           THEN [th[t] EXCEPT !.pc = "count_del_fold"]
                           ELSE Return(th[t], NULL, 0)]
    /\ UNCHANGED <<heap, tvars, hvars, count, rcuvars, faults>>
    /\ UNCHANGED uvars

\* a del-fold that asks for a resize whatever the count
CountDelFoldNoFloor(t) ==
    /\ th[t].pc = "count_del_fold"
    /\ LET c == count - Pow2(COUNT_COMMIT_ORDER)
       IN  /\ count' = c
           /\ th' = [th EXCEPT ![t] =
                        IF CountIsPow2(c)
                           /\ c \div Pow2(CHAIN_LEN_RESIZE_THRESHOLD) < th[t].size
                        THEN [th[t] EXCEPT !.pc = "resize_lazy_count",
                                 !.target_size = c \div Pow2(CHAIN_LEN_TARGET - 1)]
                        ELSE Return(th[t], NULL, 0)]
    /\ UNCHANGED <<heap, tvars, hvars, percpu_count, rcuvars, faults>>
    /\ UNCHANGED uvars

\* count = uatomic_add_return(&ht->count, -(1UL << COUNT_COMMIT_ORDER))
CountDelFold(t) ==
    /\ th[t].pc = "count_del_fold"
    /\ LET c == count - Pow2(COUNT_COMMIT_ORDER)
       IN  /\ count' = c
           /\ th' = [th EXCEPT ![t] =
                        IF CountIsPow2(c)
                           /\ c \div Pow2(CHAIN_LEN_RESIZE_THRESHOLD) < th[t].size
                           /\ c >= Pow2(COUNT_COMMIT_ORDER) * Cardinality(Cells)
                        THEN [th[t] EXCEPT !.pc = "resize_lazy_count",
                                 !.target_size = c \div Pow2(CHAIN_LEN_TARGET - 1)]
                        ELSE Return(th[t], NULL, 0)]
    /\ UNCHANGED <<heap, tvars, hvars, percpu_count, rcuvars, faults>>
    /\ UNCHANGED uvars

\* cds_lfht_resize_lazy_count of a table created without CDS_LFHT_AUTO_RESIZE
ResizeLazyCount(t) ==
    /\ th[t].pc = "resize_lazy_count"
    /\ "AUTO_RESIZE" \notin flags
    /\ th' = [th EXCEPT ![t] =
                 Return([th[t] EXCEPT !.target_size = 0], th[t].ret, 0)]
    /\ UNCHANGED <<heap, tvars, hvars, cvars, rcuvars, faults>>
    /\ UNCHANGED uvars

\* ------------------------------------------------------------------------
\* cds_lfht_count_nodes
\* ------------------------------------------------------------------------
\* the sum over the per-CPU cells of add - del, 0 when nr_cpus_mask < 0
ApproxSum ==
    IF percpu_count = NoCounters THEN 0
    ELSE Sum([c \in Cells |-> percpu_count[c].add - percpu_count[c].del], Cells)

\* *approx_before = ...; *count = 0; *removed = 0; node = &ht->t.tbl[0]->nodes[0]
ApiCountNodes(t) ==
    /\ CanCall(t)
    /\ th' = [th EXCEPT ![t] =
                 [Begin(t, "count_nodes", NoKey) EXCEPT !.pc = "cn_walk",
                      !.node = D(0), !.approx_before = ApproxSum,
                      !.count = 0, !.removed = 0, !.approx_after = 0]]
    /\ UNCHANGED <<heap, tvars, hvars, cvars, rcuvars, faults>>
    /\ UNCHANGED uvars

\* a walk that counts every node that is not flagged REMOVED
CountNodesWalkAll(t) ==
    /\ th[t].pc = "cn_walk"
    /\ LET r    == th[t]
           next == node_next[r.node]
           r1   == [r EXCEPT !.node = clear_flag(next),
                       !.count = IF ~is_removed(next) THEN @ + 1 ELSE @,
                       !.removed = IF is_removed(next) /\ ~is_dummy(next)
                                   THEN @ + 1 ELSE @]
       IN  /\ th' = [th EXCEPT ![t] =
                  IF is_end(next) THEN [r1 EXCEPT !.pc = "cn_after"] ELSE r1]
           /\ faults' = Touch({r.node})
    /\ UNCHANGED <<heap, tvars, hvars, cvars, rcuvars>>
    /\ UNCHANGED uvars

\* body of the do-while loop: next = rcu_dereference(node->p.next), the
\* counters, node = clear_flag(next)
CountNodesWalk(t) ==
    /\ th[t].pc = "cn_walk"
    /\ LET r    == th[t]
           next == node_next[r.node]
           r1   == [r EXCEPT !.node = clear_flag(next),
                       !.count = IF ~is_removed(next) /\ ~is_dummy(next)
                                 THEN @ + 1 ELSE @,
                       !.removed = IF is_removed(next) /\ ~is_dummy(next)
                                   THEN @ + 1 ELSE @]
       IN  /\ th' = [th EXCEPT ![t] =
                  IF is_end(next) THEN [r1 EXCEPT !.pc = "cn_after"] ELSE r1]
           /\ faults' = Touch({r.node})
    /\ UNCHANGED <<heap, tvars, hvars, cvars, rcuvars>>
    /\ UNCHANGED uvars

\* *approx_after = ...
CountNodesAfter(t) ==
    /\ th[t].pc = "cn_after"
    /\ th' = [th EXCEPT ![t] =
                 Return([th[t] EXCEPT !.approx_after = ApproxSum], NULL, 0)]
    /\ UNCHANGED <<heap, tvars, hvars, cvars, rcuvars, faults>>
    /\ UNCHANGED uvars

\* ------------------------------------------------------------------------
\* init_table, init_table_populate, init_table_populate_partition
\* ------------------------------------------------------------------------
OrderSize(i) == IF i = 0 THEN 1 ELSE Pow2(i)

LevelLen(i) == IF i = 0 THEN 1 ELSE Pow2(i - 1)

\* hash index of nodes[j] of level i
LevelIndex(i, j) == IF i = 0 THEN 0 ELSE Pow2(i - 1) + j

LevelNodes(i) == {D(LevelIndex(i, j)) : j \in 0 .. LevelLen(i) - 1}

\* init_table / fini_table return to _cds_lfht_new or to _do_cds_lfht_resize
TableRet(r) ==
    IF r.caller = "new" THEN [r EXCEPT !.pc = "new_unlock"]
    ELSE [r EXCEPT !.pc = "rs_clear_initiated"]

\* init_table publishing the size of an order when it allocates the level
InitCheckPublish(t) ==
    /\ th[t].pc = "init_check"
    /\ LET r == th[t]
       IN  IF r.i >= r.end_order \/ resize_target < OrderSize(r.i)
           THEN /\ th' = [th EXCEPT ![t] = TableRet(r)]
                /\ UNCHANGED <<heap, tbl, rcuvars, size>>
           ELSE /\ tbl' = [tbl EXCEPT ![r.i] = "alloc"]
                /\ size' = OrderSize(r.i)
                /\ node_next' = [n \in AllNodes |->
                       IF n \in LevelNodes(r.i) THEN get_end ELSE node_next[n]]
                /\ node_reverse_hash' = [n \in AllNodes |->
                       IF n \in LevelNodes(r.i) THEN 0 ELSE node_reverse_hash[n]]
                /\ rcu_offline' = [rcu_offline EXCEPT ![t] = FALSE]
                /\ rcu_nest' = [rcu_nest EXCEPT ![t] = 1]
                /\ th' = [th EXCEPT ![t] = [r EXCEPT !.pc = "populate", !.j = 0]]
                /\ UNCHANGED <<node_key, gp_wait, cb_queue>>
    /\ UNCHANGED <<resize_target, resize_initiated, hvars, cvars, faults>>
    /\ UNCHANGED uvars

\* loop head of init_table: stop when resize_target changed under us, else
\* calloc the level; init_table_populate goes online and takes the read lock
InitCheck(t) ==
    /\ th[t].pc = "init_check"
    /\ LET r == th[t]
       IN  IF r.i >= r.end_order \/ resize_target < OrderSize(r.i)
           THEN /\ th' = [th EXCEPT ![t] = TableRet(r)]
                /\ UNCHANGED <<heap, tbl, rcuvars>>
           ELSE /\ tbl' = [tbl EXCEPT ![r.i] = "alloc"]
                /\ node_next' = [n \in AllNodes |->
                       IF n \in LevelNodes(r.i) THEN get_end ELSE node_next[n]]
                /\ node_reverse_hash' = [n \in AllNodes |->
                       IF n \in LevelNodes(r.i) THEN 0 ELSE node_reverse_hash[n]]
                /\ rcu_offline' = [rcu_offline EXCEPT ![t] = FALSE]
                /\ rcu_nest' = [rcu_nest EXCEPT ![t] = 1]
                /\ th' = [th EXCEPT ![t] = [r EXCEPT !.pc = "populate", !.j = 0]]
                /\ UNCHANGED <<node_key, gp_wait, cb_queue>>
    /\ UNCHANGED <<size, resize_target, resize_initiated, hvars, cvars, faults>>
    /\ UNCHANGED uvars

\* loop body of init_table_populate_partition; after the last node the thread
\* leaves the read-side critical section and goes offline
Populate(t) ==
    /\ th[t].pc = "populate"
    /\ LET r    == th[t]
           node == D(LevelIndex(r.i, r.j))
           rh   == bit_reverse_ulong(LevelIndex(r.i, r.j))
           sz   == IF r.i = 0 THEN 0 ELSE Pow2(r.i - 1)
       IN  IF r.j < LevelLen(r.i)
           THEN /\ node_reverse_hash' = [node_reverse_hash EXCEPT ![node] = rh]
                /\ IF sz = 0
                   THEN /\ node_next' = [node_next EXCEPT ![node] =
                                                            flag_dummy(get_end)]
                        /\ th' = [th EXCEPT ![t] = [r EXCEPT !.j = r.j + 1]]
                   ELSE /\ th' = [th EXCEPT ![t] =
                               AddEnter([r EXCEPT !.op = "populate"], sz, node,
                                        "ADD_DEFAULT", TRUE, rh)]
                        /\ UNCHANGED node_next
                /\ UNCHANGED rcuvars
           ELSE /\ rcu_nest' = [rcu_nest EXCEPT ![t] = 0]
                /\ gp_wait' = GpLeave(t)
                /\ cb_queue' = CbLeave(t)
                /\ rcu_offline' = [rcu_offline EXCEPT ![t] = TRUE]
                /\ th' = [th EXCEPT ![t] =
                             [r EXCEPT !.pc = "init_store_size", !.op = "none",
                                       !.node = NULL, !.size = 0, !.dummy = FALSE,
                                       !.j = 0]]
                /\ UNCHANGED <<node_next, node_reverse_hash>>
    /\ UNCHANGED <<node_key, tvars, hvars, cvars, faults>>
    /\ UNCHANGED uvars

\* CMM_STORE_SHARED(ht->t.size, !i ? 1 : (1UL << i))
InitStoreSize(t) ==
    /\ th[t].pc = "init_store_size"
    /\ size' = OrderSize(th[t].i)
    /\ th' = [th EXCEPT ![t] = [@ EXCEPT !.pc = "init_check_destroy"]]
    /\ UNCHANGED <<heap, resize_target, resize_initiated, tbl, hvars, cvars,
                   rcuvars, faults>>
    /\ UNCHANGED uvars

\* if (CMM_LOAD_SHARED(ht->in_progress_destroy)) break;
InitCheckDestroy(t) ==
    /\ th[t].pc = "init_check_destroy"
    /\ th' = [th EXCEPT ![t] =
                 IF in_progress_destroy # 0 THEN TableRet(th[t])
                 ELSE [th[t] EXCEPT !.pc = "init_check", !.i = @ + 1]]
    /\ UNCHANGED <<heap, tvars, hvars, cvars, rcuvars, faults>>
    /\ UNCHANGED uvars

\* ------------------------------------------------------------------------
\* fini_table, remove_table, remove_table_partition
\* ------------------------------------------------------------------------
\* loop head of fini_table
FiniCheck(t) ==
    /\ th[t].pc = "fini_check"
    /\ LET r == th[t]
       IN  th' = [th EXCEPT ![t] =
                     IF r.i < r.first_order \/ resize_target > Pow2(r.i - 1)
                     THEN [r EXCEPT !.pc = "fini_tail"]
                     ELSE [r EXCEPT !.pc = "fini_store_size"]]
    /\ UNCHANGED <<heap, tvars, hvars, cvars, rcuvars, faults>>
    /\ UNCHANGED uvars

\* fini_table with a synchronize_rcu that waits for no reader
FiniStoreSizeNoReaders(t) ==
    /\ th[t].pc = "fini_store_size"
    /\ size' = Pow2(th[t].i - 1)
    /\ gp_wait' = [gp_wait EXCEPT ![t] = {}]
    /\ th' = [th EXCEPT ![t] = [@ EXCEPT !.pc = "fini_sync"]]
    /\ UNCHANGED <<heap, resize_target, resize_initiated, tbl, hvars, cvars,
                   rcu_nest, rcu_offline, cb_queue, faults>>
    /\ UNCHANGED uvars

\* fini_table leaving the size as it is
FiniStoreSizeKept(t) ==
    /\ th[t].pc = "fini_store_size"
    /\ gp_wait' = [gp_wait EXCEPT ![t] = GpSnapshot(t)]
    /\ th' = [th EXCEPT ![t] = [@ EXCEPT !.pc = "fini_sync"]]
    /\ UNCHANGED <<heap, tvars, hvars, cvars, rcu_nest, rcu_offline, cb_queue,
                   faults>>
    /\ UNCHANGED uvars

\* CMM_STORE_SHARED(ht->t.size, 1UL << (i - 1)); synchronize_rcu() is entered
FiniStoreSize(t) ==
    /\ th[t].pc = "fini_store_size"
    /\ size' = Pow2(th[t].i - 1)
    /\ gp_wait' = [gp_wait EXCEPT ![t] = GpSnapshot(t)]
    /\ th' = [th EXCEPT ![t] = [@ EXCEPT !.pc = "fini_sync"]]
    /\ UNCHANGED <<heap, resize_target, resize_initiated, tbl, hvars, cvars,
                   rcu_nest, rcu_offline, cb_queue, faults>>
    /\ UNCHANGED uvars

\* fini_table freeing the previous level without waiting for the readers
FiniSyncNoWait(t) ==
    /\ th[t].pc = "fini_sync"
    /\ tbl' = IF th[t].free_by_rcu >= 0
              THEN [tbl EXCEPT ![th[t].free_by_rcu] = "freed"] ELSE tbl
    /\ rcu_offline' = [rcu_offline EXCEPT ![t] = FALSE]
    /\ rcu_nest' = [rcu_nest EXCEPT ![t] = 1]
    /\ th' = [th EXCEPT ![t] = [@ EXCEPT !.pc = "remove", !.j = 0]]
    /\ UNCHANGED <<heap, size, resize_target, resize_initiated, hvars, cvars,
                   gp_wait, cb_queue, faults>>
    /\ UNCHANGED uvars

\* synchronize_rcu() returns; free(free_by_rcu); remove_table goes online and
\* remove_table_partition takes the read lock
FiniSync(t) ==
    /\ th[t].pc = "fini_sync"
    /\ gp_wait[t] = {}
    /\ tbl' = IF th[t].free_by_rcu >= 0
              THEN [tbl EXCEPT ![th[t].free_by_rcu] = "freed"] ELSE tbl
    /\ rcu_offline' = [rcu_offline EXCEPT ![t] = FALSE]
    /\ rcu_nest' = [rcu_nest EXCEPT ![t] = 1]
    /\ th' = [th EXCEPT ![t] = [@ EXCEPT !.pc = "remove", !.j = 0]]
    /\ UNCHANGED <<heap, size, resize_target, resize_initiated, hvars, cvars,
                   gp_wait, cb_queue, faults>>
    /\ UNCHANGED uvars

\* remove_table_partition taking entry j of the first level for entry j of
\* any level
RemoveFromZero(t) ==
    /\ th[t].pc = "remove"
    /\ LET r    == th[t]
           node == D(r.j)
           rh   == bit_reverse_ulong(r.j)
       IN  IF r.j < LevelLen(r.i)
           THEN /\ node_reverse_hash' = [node_reverse_hash EXCEPT ![node] = rh]
                /\ th' = [th EXCEPT ![t] =
                             [r EXCEPT !.pc = "del_read", !.op = "remove",
                                       !.node = node, !.size = Pow2(r.i - 1)]]
                /\ UNCHANGED rcuvars
           ELSE /\ rcu_nest' = [rcu_nest EXCEPT ![t] = 0]
                /\ gp_wait' = GpLeave(t)
                /\ cb_queue' = CbLeave(t)
                /\ rcu_offline' = [rcu_offline EXCEPT ![t] = TRUE]
                /\ th' = [th EXCEPT ![t] =
                             [r EXCEPT !.pc = "fini_check_destroy", !.op = "none",
                                       !.node = NULL, !.size = 0, !.j = 0,
                                       !.free_by_rcu = r.i]]
                /\ UNCHANGED node_reverse_hash
    /\ UNCHANGED <<node_next, node_key, tvars, hvars, cvars, faults>>
    /\ UNCHANGED uvars

\* loop body of remove_table_partition; after the last node the thread leaves
\* the critical section, goes offline, and fini_table keeps the level to free
Remove(t) ==
    /\ th[t].pc = "remove"
    /\ LET r    == th[t]
           node == D(LevelIndex(r.i, r.j))
           rh   == bit_reverse_ulong(LevelIndex(r.i, r.j))
       IN  IF r.j < LevelLen(r.i)
           THEN /\ node_reverse_hash' = [node_reverse_hash EXCEPT ![node] = rh]
                /\ th' = [th EXCEPT ![t] =
                             [r EXCEPT !.pc = "del_read", !.op = "remove",
                                       !.node = node, !.size = Pow2(r.i - 1)]]
                /\ UNCHANGED rcuvars
           ELSE /\ rcu_nest' = [rcu_nest EXCEPT ![t] = 0]
                /\ gp_wait' = GpLeave(t)
                /\ cb_queue' = CbLeave(t)
                /\ rcu_offline' = [rcu_offline EXCEPT ![t] = TRUE]
                /\ th' = [th EXCEPT ![t] =
                             [r EXCEPT !.pc = "fini_check_destroy", !.op = "none",
                                       !.node = NULL, !.size = 0, !.j = 0,
                                       !.free_by_rcu = r.i]]
                /\ UNCHANGED node_reverse_hash
    /\ UNCHANGED <<node_next, node_key, tvars, hvars, cvars, faults>>
    /\ UNCHANGED uvars

FiniCheckDestroy(t) ==
    /\ th[t].pc = "fini_check_destroy"
    /\ th' = [th EXCEPT ![t] =
                 IF in_progress_destroy # 0 THEN [th[t] EXCEPT !.pc = "fini_tail"]
                 ELSE [th[t] EXCEPT !.pc = "fini_check", !.i = @ - 1]]
    /\ UNCHANGED <<heap, tvars, hvars, cvars, rcuvars, faults>>
    /\ UNCHANGED uvars

\* if (free_by_rcu) { synchronize_rcu(); ...
FiniTail(t) ==
    /\ th[t].pc = "fini_tail"
    /\ IF th[t].free_by_rcu >= 0
       THEN /\ gp_wait' = [gp_wait EXCEPT ![t] = GpSnapshot(t)]
            /\ th' = [th EXCEPT ![t] = [@ EXCEPT !.pc = "fini_tail_sync"]]
       ELSE /\ th' = [th EXCEPT ![t] = TableRet(th[t])]
            /\ UNCHANGED gp_wait
    /\ UNCHANGED <<heap, tvars, hvars, cvars, rcu_nest, rcu_offline, cb_queue,
                   faults>>
    /\ UNCHANGED uvars

\* ... free(free_by_rcu); }
FiniTailSync(t) ==
    /\ th[t].pc = "fini_tail_sync"
    /\ gp_wait[t] = {}
    /\ tbl' = [tbl EXCEPT ![th[t].free_by_rcu] = "freed"]
    /\ th' = [th EXCEPT ![t] = TableRet([th[t] EXCEPT !.free_by_rcu = -1])]
    /\ UNCHANGED <<heap, size, resize_target, resize_initiated, hvars, cvars,
                   rcuvars, faults>>
    /\ UNCHANGED uvars


\* ------------------------------------------------------------------------
\* _do_cds_lfht_resize, _do_cds_lfht_grow, _do_cds_lfht_shrink
\* ------------------------------------------------------------------------
\* _do_cds_lfht_resize returns to its caller
ResizeRet(r) ==
    [r EXCEPT !.pc = IF r.caller = "resize" THEN "resize_unlock" ELSE "cb_unlock"]

\* assert(uatomic_read(&ht->in_progress_resize));
\* if (CMM_LOAD_SHARED(ht->in_progress_destroy)) break;
ResizeLoop(t) ==
    /\ th[t].pc = "rs_loop"
    /\ th' = [th EXCEPT ![t] =
                 IF in_progress_destroy # 0 THEN ResizeRet(th[t])
                 ELSE [th[t] EXCEPT !.pc = "rs_set_initiated"]]
    /\ faults' = faults \cup Check(in_progress_resize > 0, "resize_not_in_progress")
    /\ UNCHANGED <<heap, tvars, hvars, cvars, rcuvars>>
    /\ UNCHANGED uvars

\* ht->t.resize_initiated = 1
ResizeSetInitiated(t) ==
    /\ th[t].pc = "rs_set_initiated"
    /\ resize_initiated' = 1
    /\ th' = [th EXCEPT ![t] = [@ EXCEPT !.pc = "rs_read"]]
    /\ UNCHANGED <<heap, size, resize_target, tbl, hvars, cvars, rcuvars, faults>>
    /\ UNCHANGED uvars

\* old_size = ht->t.size; new_size = resize_target; grow or shrink
ResizeRead(t) ==
    /\ th[t].pc = "rs_read"
    /\ LET r == th[t]
           old_size == size
           new_size == resize_target
           old_order == get_count_order_ulong(old_size) + 1
           grow_order == get_count_order_ulong(new_size) + 1
           shrink_order ==
               get_count_order_ulong(max(new_size, MIN_TABLE_SIZE)) + 1
       IN  /\ th' = [th EXCEPT ![t] =
                  IF old_size < new_size
                  THEN [r EXCEPT !.pc = "init_check", !.i = old_order,
                                 !.first_order = old_order,
                                 !.end_order = grow_order]
                  ELSE IF old_size > new_size
                  THEN [r EXCEPT !.pc = "fini_check", !.i = old_order - 1,
                                 !.first_order = shrink_order,
                                 !.end_order = old_order, !.free_by_rcu = -1]
                  ELSE [r EXCEPT !.pc = "rs_clear_initiated"]]
           /\ faults' = faults \cup
                  (IF old_size > new_size
                   THEN Check(shrink_order > 0, "fini_first_order")
                   ELSE {})
    /\ UNCHANGED <<heap, tvars, hvars, cvars, rcuvars>>
    /\ UNCHANGED uvars

\* ht->t.resize_initiated = 0
ResizeClearInitiated(t) ==
    /\ th[t].pc = "rs_clear_initiated"
    /\ resize_initiated' = 0
    /\ th' = [th EXCEPT ![t] =
                 [@ EXCEPT !.pc = "rs_test", !.i = 0, !.j = 0, !.first_order = 0,
                           !.end_order = 0]]
    /\ UNCHANGED <<heap, size, resize_target, tbl, hvars, cvars, rcuvars, faults>>
    /\ UNCHANGED uvars

\* a resize loop that stops without reading resize_target again
ResizeTestOnce(t) ==
    /\ th[t].pc = "rs_test"
    /\ th' = [th EXCEPT ![t] = ResizeRet(th[t])]
    /\ UNCHANGED <<heap, tvars, hvars, cvars, rcuvars, faults>>
    /\ UNCHANGED uvars

\* } while (ht->t.size != CMM_LOAD_SHARED(ht->t.resize_target));
ResizeTest(t) ==
    /\ th[t].pc = "rs_test"
    /\ th' = [th EXCEPT ![t] =
                 IF size # resize_target THEN [th[t] EXCEPT !.pc = "rs_loop"]
                 ELSE ResizeRet(th[t])]
    /\ UNCHANGED <<heap, tvars, hvars, cvars, rcuvars, faults>>
    /\ UNCHANGED uvars

\* ------------------------------------------------------------------------
\* cds_lfht_resize_lazy, called by check_resize inside the walk of
\* _cds_lfht_add, and do_resize_cb
\* ------------------------------------------------------------------------
\* cds_lfht_resize_lazy returns to the walk of _cds_lfht_add
\* cds_lfht_resize_lazy_count returns to ht_count_add or ht_count_del, and
\* these to their caller
LazyRet(r) ==
    IF r.caller = "count"
    THEN Return([r EXCEPT !.caller = "none", !.target_size = 0],
                IF r.op = "del" THEN NULL ELSE r.ret, 0)
    ELSE [r EXCEPT !.pc = AddWalkPc(r), !.target_size = 0]

\* _uatomic_max: old1 = uatomic_read(ptr); if (old2 >= v) return old2
LazyReadTarget(t) ==
    /\ th[t].pc = "lazy_read_target"
    /\ th' = [th EXCEPT ![t] =
                 [@ EXCEPT !.target_size = resize_target,
                           !.pc = IF resize_target >= LazyTarget(th[t])
                                  THEN "lazy_read_initiated"
                                  ELSE "lazy_cas_target"]]
    /\ UNCHANGED <<heap, tvars, hvars, cvars, rcuvars, faults>>
    /\ UNCHANGED uvars

\* _uatomic_max: old1 = uatomic_cmpxchg(ptr, old2, v), until it succeeds or
\* the value read is not below v
LazyCasTarget(t) ==
    /\ th[t].pc = "lazy_cas_target"
    /\ LET r == th[t]
           v == LazyTarget(r)
       IN  IF resize_target = r.target_size
           THEN /\ resize_target' = v
                /\ th' = [th EXCEPT ![t] =
                             [r EXCEPT !.target_size = v,
                                       !.pc = "lazy_read_initiated"]]
           ELSE /\ th' = [th EXCEPT ![t] =
                             [r EXCEPT !.target_size = resize_target,
                                       !.pc = IF resize_target >= v
                                              THEN "lazy_read_initiated"
                                              ELSE "lazy_cas_target"]]
                /\ UNCHANGED resize_target
    /\ UNCHANGED <<heap, size, resize_initiated, tbl, hvars, cvars, rcuvars,
                   faults>>
    /\ UNCHANGED uvars

\* if (!CMM_LOAD_SHARED(ht->t.resize_initiated) && size < target_size)
LazyReadInitiated(t) ==
    /\ th[t].pc = "lazy_read_initiated"
    /\ th' = [th EXCEPT ![t] =
                 IF resize_initiated = 0 /\ th[t].size < th[t].target_size
                 THEN [th[t] EXCEPT !.pc = "lazy_inc"]
                 ELSE LazyRet(th[t])]
    /\ UNCHANGED <<heap, tvars, hvars, cvars, rcuvars, faults>>
    /\ UNCHANGED uvars

\* a trigger that does not count the callback it is about to enqueue
LazyIncSkipped(t) ==
    /\ th[t].pc = "lazy_inc"
    /\ th' = [th EXCEPT ![t] = [@ EXCEPT !.pc = "lazy_check_destroy"]]
    /\ UNCHANGED <<heap, tvars, hvars, cvars, rcuvars, faults>>
    /\ UNCHANGED uvars

\* uatomic_inc(&ht->in_progress_resize)
LazyInc(t) ==
    /\ th[t].pc = "lazy_inc"
    /\ in_progress_resize' = in_progress_resize + 1
    /\ th' = [th EXCEPT ![t] = [@ EXCEPT !.pc = "lazy_check_destroy"]]
    /\ UNCHANGED <<heap, tvars, in_progress_destroy, resize_mutex, flags, ht,
                   cvars, rcuvars, faults>>
    /\ UNCHANGED uvars

\* a trigger that does not look at in_progress_destroy
LazyCheckDestroyNever(t) ==
    /\ th[t].pc = "lazy_check_destroy"
    /\ th' = [th EXCEPT ![t] = [@ EXCEPT !.pc = "lazy_call_rcu"]]
    /\ UNCHANGED <<heap, tvars, hvars, cvars, rcuvars, faults>>
    /\ UNCHANGED uvars

\* if (CMM_LOAD_SHARED(ht->in_progress_destroy))
LazyCheckDestroy(t) ==
    /\ th[t].pc = "lazy_check_destroy"
    /\ th' = [th EXCEPT ![t] =
                 [@ EXCEPT !.pc = IF in_progress_destroy # 0 THEN "lazy_dec"
                                  ELSE "lazy_call_rcu"]]
    /\ UNCHANGED <<heap, tvars, hvars, cvars, rcuvars, faults>>
    /\ UNCHANGED uvars

\* uatomic_dec(&ht->in_progress_resize); return
LazyDec(t) ==
    /\ th[t].pc = "lazy_dec"
    /\ in_progress_resize' = in_progress_resize - 1
    /\ th' = [th EXCEPT ![t] = LazyRet(th[t])]
    /\ UNCHANGED <<heap, tvars, in_progress_destroy, resize_mutex, flags, ht,
                   cvars, rcuvars, faults>>
    /\ UNCHANGED uvars

\* the readers a grace period that begins now waits for
GpReaders == {u \in Threads : rcu_nest[u] > 0}


\* a call_rcu whose callback waits for no reader
LazyCallRcuUngraced(t) ==
    /\ th[t].pc = "lazy_call_rcu"
    /\ cb_queue' = Append(cb_queue, {})
    /\ th' = [th EXCEPT ![t] = [@ EXCEPT !.pc = "lazy_set_initiated"]]
    /\ UNCHANGED <<heap, tvars, hvars, cvars, rcu_nest, rcu_offline, gp_wait,
                   faults>>
    /\ UNCHANGED uvars

\* ht->cds_lfht_call_rcu(&work->head, do_resize_cb)
LazyCallRcu(t) ==
    /\ th[t].pc = "lazy_call_rcu"
    /\ cb_queue' = Append(cb_queue, GpReaders)
    /\ th' = [th EXCEPT ![t] = [@ EXCEPT !.pc = "lazy_set_initiated"]]
    /\ UNCHANGED <<heap, tvars, hvars, cvars, rcu_nest, rcu_offline, gp_wait,
                   faults>>
    /\ UNCHANGED uvars

\* CMM_STORE_SHARED(ht->t.resize_initiated, 1)
LazySetInitiated(t) ==
    /\ th[t].pc = "lazy_set_initiated"
    /\ resize_initiated' = 1
    /\ th' = [th EXCEPT ![t] = LazyRet(th[t])]
    /\ UNCHANGED <<heap, size, resize_target, tbl, hvars, cvars, rcuvars, faults>>
    /\ UNCHANGED uvars

\* cds_lfht_resize_lazy_count with CDS_LFHT_AUTO_RESIZE:
\* resize_target_update_count(ht, count)
LazyCountSetTarget(t) ==
    /\ th[t].pc = "resize_lazy_count"
    /\ "AUTO_RESIZE" \in flags
    /\ resize_target' = max(th[t].target_size, MIN_TABLE_SIZE)
    /\ th' = [th EXCEPT ![t] = [@ EXCEPT !.pc = "lazy_count_read_initiated",
                                         !.caller = "count"]]
    /\ UNCHANGED <<heap, size, resize_initiated, tbl, hvars, cvars, rcuvars,
                   faults>>
    /\ UNCHANGED uvars

\* if (!CMM_LOAD_SHARED(ht->t.resize_initiated))
LazyCountReadInitiated(t) ==
    /\ th[t].pc = "lazy_count_read_initiated"
    /\ th' = [th EXCEPT ![t] =
                 IF resize_initiated = 0 THEN [th[t] EXCEPT !.pc = "lazy_inc"]
                 ELSE LazyRet(th[t])]
    /\ UNCHANGED <<heap, tvars, hvars, cvars, rcuvars, faults>>
    /\ UNCHANGED uvars

\* the call_rcu worker thread t takes the oldest callback once its grace
\* period has elapsed; do_resize_cb: ht->cds_lfht_rcu_thread_offline()
CbStart(t) ==
    /\ th[t].pc = "idle"
    /\ rcu_nest[t] = 0
    /\ cb_queue # <<>>
    /\ Head(cb_queue) = {}
    /\ cb_queue' = Tail(cb_queue)
    /\ rcu_offline' = [rcu_offline EXCEPT ![t] = TRUE]
    /\ th' = [th EXCEPT ![t] = [@ EXCEPT !.pc = "cb_lock", !.caller = "cb"]]
    /\ UNCHANGED <<heap, tvars, hvars, cvars, rcu_nest, gp_wait, faults>>
    /\ UNCHANGED uvars

\* pthread_mutex_lock(&ht->resize_mutex)
CbLock(t) ==
    /\ th[t].pc = "cb_lock"
    /\ resize_mutex = "none"
    /\ resize_mutex' = t
    /\ th' = [th EXCEPT ![t] = [@ EXCEPT !.pc = "rs_loop"]]
    /\ UNCHANGED <<heap, tvars, in_progress_resize, in_progress_destroy, flags,
                   ht, cvars, rcuvars, faults>>
    /\ UNCHANGED uvars

\* pthread_mutex_unlock(&ht->resize_mutex)
CbUnlock(t) ==
    /\ th[t].pc = "cb_unlock"
    /\ resize_mutex' = "none"
    /\ th' = [th EXCEPT ![t] = [@ EXCEPT !.pc = "cb_online"]]
    /\ UNCHANGED <<heap, tvars, in_progress_resize, in_progress_destroy, flags,
                   ht, cvars, rcuvars, faults>>
    /\ UNCHANGED uvars

\* ht->cds_lfht_rcu_thread_online(); poison_free(work)
CbOnline(t) ==
    /\ th[t].pc = "cb_online"
    /\ rcu_offline' = [rcu_offline EXCEPT ![t] = FALSE]
    /\ th' = [th EXCEPT ![t] = [@ EXCEPT !.pc = "cb_dec"]]
    /\ UNCHANGED <<heap, tvars, hvars, cvars, rcu_nest, gp_wait, cb_queue, faults>>
    /\ UNCHANGED uvars

\* uatomic_dec(&ht->in_progress_resize)
CbDec(t) ==
    /\ th[t].pc = "cb_dec"
    /\ in_progress_resize' = in_progress_resize - 1
    /\ th' = [th EXCEPT ![t] = [@ EXCEPT !.pc = "idle", !.caller = "none"]]
    /\ UNCHANGED <<heap, tvars, in_progress_destroy, resize_mutex, flags, ht,
                   cvars, rcuvars, faults>>
    /\ UNCHANGED uvars

\* ------------------------------------------------------------------------
\* cds_lfht_resize
\* ------------------------------------------------------------------------
\* resize_target_update_count(ht, new_size)
ResizeCall(t, new_size) ==
    /\ ht = "live"
    /\ th[t].pc = "idle"
    /\ th[t].nresize > 0
    /\ resize_target' = max(new_size, MIN_TABLE_SIZE)
    /\ th' = [th EXCEPT ![t] =
                 [@ EXCEPT !.pc = "resize_set_initiated", !.caller = "resize",
                           !.nresize = @ - 1, !.new_size = new_size]]
    /\ UNCHANGED <<heap, size, resize_initiated, tbl, hvars, cvars, rcuvars, faults>>
    /\ UNCHANGED uvars

\* CMM_STORE_SHARED(ht->t.resize_initiated, 1)
ResizeCallSetInitiated(t) ==
    /\ th[t].pc = "resize_set_initiated"
    /\ resize_initiated' = 1
    /\ th' = [th EXCEPT ![t] = [@ EXCEPT !.pc = "resize_offline"]]
    /\ UNCHANGED <<heap, size, resize_target, tbl, hvars, cvars, rcuvars, faults>>
    /\ UNCHANGED uvars

\* cds_lfht_resize going on without declaring the thread offline
ResizeOfflineSkipped(t) ==
    /\ th[t].pc = "resize_offline"
    /\ th' = [th EXCEPT ![t] = [@ EXCEPT !.pc = "resize_lock"]]
    /\ UNCHANGED <<heap, tvars, hvars, cvars, rcuvars, faults>>
    /\ UNCHANGED uvars

\* ht->cds_lfht_rcu_thread_offline()
ResizeOffline(t) ==
    /\ th[t].pc = "resize_offline"
    /\ rcu_offline' = [rcu_offline EXCEPT ![t] = TRUE]
    /\ th' = [th EXCEPT ![t] = [@ EXCEPT !.pc = "resize_lock"]]
    /\ UNCHANGED <<heap, tvars, hvars, cvars, rcu_nest, gp_wait, cb_queue, faults>>
    /\ UNCHANGED uvars

\* a lock that is taken also while another thread holds it
ResizeLockTaken(t) ==
    /\ th[t].pc = "resize_lock"
    /\ resize_mutex' = t
    /\ th' = [th EXCEPT ![t] = [@ EXCEPT !.pc = "rs_loop"]]
    /\ UNCHANGED <<heap, tvars, in_progress_resize, in_progress_destroy, flags,
                   ht, cvars, rcuvars, faults>>
    /\ UNCHANGED uvars

\* pthread_mutex_lock(&ht->resize_mutex)
ResizeLock(t) ==
    /\ th[t].pc = "resize_lock"
    /\ resize_mutex = "none"
    /\ resize_mutex' = t
    /\ th' = [th EXCEPT ![t] = [@ EXCEPT !.pc = "rs_loop"]]
    /\ UNCHANGED <<heap, tvars, in_progress_resize, in_progress_destroy, flags,
                   ht, cvars, rcuvars, faults>>
    /\ UNCHANGED uvars

\* pthread_mutex_unlock(&ht->resize_mutex)
ResizeUnlock(t) ==
    /\ th[t].pc = "resize_unlock"
    /\ resize_mutex' = "none"
    /\ th' = [th EXCEPT ![t] = [@ EXCEPT !.pc = "resize_online"]]
    /\ UNCHANGED <<heap, tvars, in_progress_resize, in_progress_destroy, flags,
                   ht, cvars, rcuvars, faults>>
    /\ UNCHANGED uvars

\* ht->cds_lfht_rcu_thread_online()
ResizeOnline(t) ==
    /\ th[t].pc = "resize_online"
    /\ rcu_offline' = [rcu_offline EXCEPT ![t] = FALSE]
    /\ th' = [th EXCEPT ![t] = [@ EXCEPT !.pc = "idle", !.caller = "none"]]
    /\ UNCHANGED <<heap, tvars, hvars, cvars, rcu_nest, gp_wait, cb_queue, faults>>
    /\ UNCHANGED uvars

\* ------------------------------------------------------------------------
\* _cds_lfht_new
\* ------------------------------------------------------------------------
\* the creating thread, up to the call of init_table; fl are the caller's
\* flags, counting tells whether alloc_per_cpu_items_count returns an array
New(t, init_size, fl, counting) ==
    /\ t = Resizer
    /\ ht = "none"
    /\ th[t].pc = "idle"
    /\ IF init_size # 0 /\ ~IsPow2(init_size)
       THEN /\ ht' = "invalid"
            /\ th' = [th EXCEPT ![t] = [@ EXCEPT !.init_size = init_size]]
            /\ UNCHANGED <<flags, percpu_count, resize_mutex, resize_target,
                           rcu_offline>>
       ELSE LET order == get_count_order_ulong(max(init_size, MIN_TABLE_SIZE)) + 1
            IN  /\ ht' = "new"
                /\ flags' = fl
                /\ percpu_count' =
                       IF counting THEN [c \in Cpus |-> [add |-> 0, del |-> 0]]
                       ELSE NoCounters
                /\ rcu_offline' = [rcu_offline EXCEPT ![t] = TRUE]
                /\ resize_mutex' = t
                /\ resize_target' = Pow2(order - 1)
                /\ th' = [th EXCEPT ![t] =
                             [@ EXCEPT !.pc = "init_check", !.caller = "new",
                                       !.i = 0, !.first_order = 0,
                                       !.end_order = order,
                                       !.init_size = init_size]]
    /\ UNCHANGED <<heap, size, resize_initiated, tbl, in_progress_resize,
                   in_progress_destroy, count, rcu_nest, gp_wait, cb_queue,
                   faults>>
    /\ UNCHANGED uvars

\* pthread_mutex_unlock; thread_online; return ht
NewUnlock(t) ==
    /\ th[t].pc = "new_unlock"
    /\ resize_mutex' = "none"
    /\ rcu_offline' = [rcu_offline EXCEPT ![t] = FALSE]
    /\ ht' = "live"
    /\ th' = [th EXCEPT ![t] =
                 [@ EXCEPT !.pc = "idle", !.caller = "none", !.i = 0,
                           !.first_order = 0, !.end_order = 0]]
    /\ UNCHANGED <<heap, tvars, in_progress_resize, in_progress_destroy, flags,
                   cvars, rcu_nest, gp_wait, cb_queue, faults>>
    /\ UNCHANGED uvars

\* ------------------------------------------------------------------------
\* cds_lfht_destroy, cds_lfht_delete_dummy
\* ------------------------------------------------------------------------
\* cds_lfht_destroy returns ret; after -EPERM the handle is still valid
DestroyRet(r, ret) ==
    [r EXCEPT !.pc = "idle", !.caller = "none", !.last = "destroy", !.res = ret,
              !.iter = get_end, !.size = 0, !.i = 0]

\* _CMM_STORE_SHARED(ht->in_progress_destroy, 1)
Destroy(t) ==
    /\ ht = "live"
    /\ th[t].pc = "idle"
    /\ th[t].ndestroy > 0
    /\ in_progress_destroy' = 1
    /\ ht' = "destroying"
    /\ th' = [th EXCEPT ![t] =
                 [@ EXCEPT !.pc = "destroy_poll", !.caller = "destroy",
                           !.ndestroy = @ - 1, !.last = "none", !.res = 0]]
    /\ UNCHANGED <<heap, tvars, in_progress_resize, resize_mutex, flags, cvars,
                   rcuvars, faults>>
    /\ UNCHANGED uvars

\* while (uatomic_read(&ht->in_progress_resize)) poll(NULL, 0, 100);
\* then lookup = &ht->t.tbl[0]->nodes[0]; node = lookup
DestroyPoll(t) ==
    /\ th[t].pc = "destroy_poll"
    /\ in_progress_resize = 0
    /\ th' = [th EXCEPT ![t] = [@ EXCEPT !.pc = "dd_walk", !.iter = Ptr(D(0))]]
    /\ UNCHANGED <<heap, tvars, hvars, cvars, rcuvars, faults>>
    /\ UNCHANGED uvars

\* a check of emptiness that steps over the user nodes
DeleteDummyWalkSkip(t) ==
    /\ th[t].pc = "dd_walk"
    /\ LET r    == th[t]
           node == node_next[clear_flag(r.iter)]
       IN  /\ th' = [th EXCEPT ![t] =
                  IF is_end(node)
                  THEN [r EXCEPT !.pc = "dd_free", !.iter = get_end, !.i = 0,
                                 !.size = size]
                  ELSE [r EXCEPT !.iter = node]]
           /\ faults' = Touch({clear_flag(r.iter)})
    /\ UNCHANGED <<heap, tvars, hvars, cvars, rcuvars>>
    /\ UNCHANGED uvars

\* body of the loop of cds_lfht_delete_dummy that checks the table is empty;
\* after the last node, size = ht->t.size
DeleteDummyWalk(t) ==
    /\ th[t].pc = "dd_walk"
    /\ LET r    == th[t]
           node == node_next[clear_flag(r.iter)]
       IN  /\ th' = [th EXCEPT ![t] =
                  IF ~is_dummy(node) THEN DestroyRet(r, -EPERM)
                  ELSE IF is_end(node)
                  THEN [r EXCEPT !.pc = "dd_free", !.iter = get_end, !.i = 0,
                                 !.size = size]
                  ELSE [r EXCEPT !.iter = node]]
           /\ ht' = IF ~is_dummy(node) THEN "live" ELSE ht
           /\ faults' = Touch({clear_flag(r.iter)})
                          \cup (IF is_dummy(node)
                                THEN Check(~is_removed(node), "destroy_removed")
                                ELSE {})
    /\ UNCHANGED <<heap, tvars, in_progress_resize, in_progress_destroy,
                   resize_mutex, flags, cvars, rcuvars>>
    /\ UNCHANGED uvars

\* body of the loop over the orders: the nodes of the order are asserted to be
\* dummies and poison_free(ht->t.tbl[order]); after the last order
\* cds_lfht_delete_dummy returns 0
DeleteDummyFree(t) ==
    /\ th[t].pc = "dd_free"
    /\ LET r == th[t]
       IN  IF r.i < get_count_order_ulong(r.size) + 1
           THEN /\ tbl' = [tbl EXCEPT ![r.i] = "freed"]
                /\ faults' = Touch(LevelNodes(r.i))
                               \cup Check(\A n \in LevelNodes(r.i) :
                                              is_dummy(node_next[n]),
                                          "destroy_not_dummy")
                /\ th' = [th EXCEPT ![t] = [r EXCEPT !.i = r.i + 1]]
           ELSE /\ th' = [th EXCEPT ![t] = [r EXCEPT !.pc = "destroy_free"]]
                /\ UNCHANGED <<tbl, faults>>
    /\ UNCHANGED <<heap, size, resize_target, resize_initiated, hvars, cvars,
                   rcuvars>>
    /\ UNCHANGED uvars

\* free_per_cpu_items_count(ht->percpu_count); poison_free(ht); return 0
DestroyFree(t) ==
    /\ th[t].pc = "destroy_free"
    /\ ht' = "destroyed"
    /\ th' = [th EXCEPT ![t] = DestroyRet(th[t], 0)]
    /\ UNCHANGED <<heap, tvars, in_progress_resize, in_progress_destroy,
                   resize_mutex, flags, cvars, rcuvars, faults>>
    /\ UNCHANGED uvars

\* ------------------------------------------------------------------------
\* urcu.c: grace period detection by two flips of the parity of urcu_gp_ctr
\* ------------------------------------------------------------------------
RCU_GP_COUNT == 1

\* 1UL << (sizeof(long) << 2), for a long of four bytes
RCU_GP_CTR_BIT == 65536

\* v & RCU_GP_CTR_NEST_MASK
NestOf(v) == v % RCU_GP_CTR_BIT

\* the RCU_GP_CTR_BIT bit of v
ParityOf(v) == (v \div RCU_GP_CTR_BIT) % 2

\* v ^ RCU_GP_CTR_BIT
FlipParity(v) == IF ParityOf(v) = 1 THEN v - RCU_GP_CTR_BIT
                 ELSE v + RCU_GP_CTR_BIT

INIT_NUM_THREADS == 4

num_readers == Len(registry)

Readers == Workers

Writers == {Resizer}

\* locals of a thread outside urcu.c; nread and nsync are the read locks and
\* the synchronize calls the thread may still begin; open, waited and entered
\* are history of the thread's synchronize call
UthInit ==
    [pc |-> "idle", op |-> "none", life |-> "new", tmp |-> 0, index |-> 0,
     phase |-> 0, nread |-> 0, nsync |-> 0, open |-> {}, waited |-> {},
     entered |-> {}]

listvars == <<heap, tvars, hvars, cvars, rcuvars, th, faults>>

tablevars == <<listvars, wfs>>

InCS(r) == NestOf(urcu_active_readers[r]) > 0

\* rcu_old_gp_ongoing(&urcu_active_readers of r)
rcu_old_gp_ongoing(r) ==
    LET v == urcu_active_readers[r]
    IN  NestOf(v) # 0 /\ ParityOf(v) # ParityOf(urcu_gp_ctr)

\* rcu_read_lock, the load: an outermost lock reads urcu_gp_ctr, a nested one
\* adds RCU_GP_COUNT to its own count
rcu_read_lock(t) ==
    /\ t \in Readers
    /\ uth[t].pc = "idle"
    /\ uth[t].life = "registered"
    /\ uth[t].nread > 0
    /\ IF NestOf(urcu_active_readers[t]) = 0
       THEN /\ uth' = [uth EXCEPT ![t] = [@ EXCEPT !.pc = "read_lock_store",
                                                   !.tmp = urcu_gp_ctr,
                                                   !.nread = @ - 1]]
            /\ UNCHANGED urcu_active_readers
       ELSE /\ urcu_active_readers' =
                   [urcu_active_readers EXCEPT ![t] = @ + RCU_GP_COUNT]
            /\ uth' = [uth EXCEPT ![t] = [@ EXCEPT !.nread = @ - 1]]
    /\ UNCHANGED <<urcu_gp_ctr, registry, alloc_readers, urcu_mutex, sig_done,
                   sig_pending>>
    /\ UNCHANGED tablevars

\* rcu_read_lock, the store of the value read from urcu_gp_ctr
rcu_read_lock_store(t) ==
    /\ uth[t].pc = "read_lock_store"
    /\ urcu_active_readers' = [urcu_active_readers EXCEPT ![t] = uth[t].tmp]
    /\ uth' = [s \in Threads |->
                 IF s = t THEN [uth[s] EXCEPT !.pc = "idle"]
                 ELSE IF uth[s].op = "synchronize"
                 THEN [uth[s] EXCEPT
                          !.entered = @ \cup {ParityOf(uth[t].tmp)}]
                 ELSE uth[s]]
    /\ UNCHANGED <<urcu_gp_ctr, registry, alloc_readers, urcu_mutex, sig_done,
                   sig_pending>>
    /\ UNCHANGED tablevars

rcu_read_unlock(t) ==
    /\ t \in Readers
    /\ uth[t].pc = "idle"
    /\ InCS(t)
    /\ urcu_active_readers' =
           [urcu_active_readers EXCEPT ![t] = @ - RCU_GP_COUNT]
    /\ uth' = [s \in Threads |->
                 IF NestOf(urcu_active_readers[t]) = 1
                 THEN [uth[s] EXCEPT !.open = @ \ {t}]
                 ELSE uth[s]]
    /\ UNCHANGED <<urcu_gp_ctr, registry, alloc_readers, urcu_mutex, sig_done,
                   sig_pending>>
    /\ UNCHANGED tablevars

\* sigurcu_handler, run by a thread a SIGURCU was sent to
sigurcu_handler(t) ==
    /\ t \in sig_pending
    /\ sig_done' = sig_done + 1
    /\ sig_pending' = sig_pending \ {t}
    /\ UNCHANGED <<urcu_gp_ctr, urcu_active_readers, registry, alloc_readers,
                   urcu_mutex, uth>>
    /\ UNCHANGED tablevars

urcu_register_thread(t) ==
    /\ uth[t].pc = "idle"
    /\ uth[t].life = "new"
    /\ uth' = [uth EXCEPT ![t] = [@ EXCEPT !.pc = "lock", !.op = "register"]]
    /\ UNCHANGED <<urcu_gp_ctr, urcu_active_readers, registry, alloc_readers,
                   urcu_mutex, sig_done, sig_pending>>
    /\ UNCHANGED tablevars

urcu_unregister_thread(t) ==
    /\ uth[t].pc = "idle"
    /\ uth[t].life = "registered"
    /\ ~InCS(t)
    /\ uth' = [uth EXCEPT ![t] = [@ EXCEPT !.pc = "lock", !.op = "unregister"]]
    /\ UNCHANGED <<urcu_gp_ctr, urcu_active_readers, registry, alloc_readers,
                   urcu_mutex, sig_done, sig_pending>>
    /\ UNCHANGED tablevars

\* synchronize_rcu is called: the read-side critical sections open now are
\* the ones it has to wait for
synchronize_rcu(t) ==
    /\ t \in Writers
    /\ uth[t].pc = "idle"
    /\ uth[t].nsync > 0
    /\ uth' = [uth EXCEPT ![t] =
                 [@ EXCEPT !.pc = "lock", !.op = "synchronize",
                           !.nsync = @ - 1, !.phase = 0,
                           !.open = {r \in Readers : InCS(r)},
                           !.waited = {r \in Readers : InCS(r)},
                           !.entered = {}]]
    /\ UNCHANGED <<urcu_gp_ctr, urcu_active_readers, registry, alloc_readers,
                   urcu_mutex, sig_done, sig_pending>>
    /\ UNCHANGED tablevars

\* the trylock of internal_urcu_lock succeeds
internal_urcu_lock(t) ==
    /\ uth[t].pc = "lock"
    /\ urcu_mutex = "none"
    /\ urcu_mutex' = t
    /\ uth' = [uth EXCEPT ![t] =
                 [@ EXCEPT !.pc = CASE uth[t].op = "register" -> "add_reader"
                                    [] uth[t].op = "unregister" -> "remove_reader"
                                    [] OTHER -> "force_mb"]]
    /\ UNCHANGED <<urcu_gp_ctr, urcu_active_readers, registry, alloc_readers,
                   sig_done, sig_pending>>
    /\ UNCHANGED tablevars

internal_urcu_unlock(t) ==
    /\ uth[t].pc = "unlock"
    /\ urcu_mutex' = "none"
    /\ uth' = [uth EXCEPT ![t] =
                 [@ EXCEPT !.pc = "idle",
                           !.life = CASE uth[t].op = "register" -> "registered"
                                      [] uth[t].op = "unregister" -> "gone"
                                      [] OTHER -> @,
                           !.op = "none"]]
    /\ UNCHANGED <<urcu_gp_ctr, urcu_active_readers, registry, alloc_readers,
                   sig_done, sig_pending>>
    /\ UNCHANGED tablevars

\* the entry of thread t: its tid and the address of its urcu_active_readers
RegistryEntry(t) == [tid |-> t, urcu_active_readers |-> t]

\* memcpy of the first len entries of the array
CopyEntries(array, len) == SubSeq(array, 1, min(len, Len(array)))

\* a urcu_add_reader that copies one entry less into the larger array
urcu_add_reader_short(t) ==
    /\ uth[t].pc = "add_reader"
    /\ LET alloc == IF alloc_readers = 0 THEN INIT_NUM_THREADS
                    ELSE alloc_readers
       IN  IF alloc < num_readers + 1
           THEN /\ alloc_readers' = 2 * alloc
                /\ registry' = Append(CopyEntries(registry, alloc - 1),
                                      RegistryEntry(t))
           ELSE /\ alloc_readers' = alloc
                /\ registry' = Append(registry, RegistryEntry(t))
    /\ uth' = [uth EXCEPT ![t] = [@ EXCEPT !.pc = "unlock"]]
    /\ UNCHANGED <<urcu_gp_ctr, urcu_active_readers, urcu_mutex, sig_done,
                   sig_pending>>
    /\ UNCHANGED tablevars

\* the first call allocates INIT_NUM_THREADS entries; a full array is copied
\* into one of twice its size; the entry of t goes to registry[num_readers]
urcu_add_reader(t) ==
    /\ uth[t].pc = "add_reader"
    /\ LET alloc == IF alloc_readers = 0 THEN INIT_NUM_THREADS
                    ELSE alloc_readers
       IN  IF alloc < num_readers + 1
           THEN /\ alloc_readers' = 2 * alloc
                /\ registry' = Append(CopyEntries(registry, alloc),
                                      RegistryEntry(t))
           ELSE /\ alloc_readers' = alloc
                /\ registry' = Append(registry, RegistryEntry(t))
    /\ uth' = [uth EXCEPT ![t] = [@ EXCEPT !.pc = "unlock"]]
    /\ UNCHANGED <<urcu_gp_ctr, urcu_active_readers, urcu_mutex, sig_done,
                   sig_pending>>
    /\ UNCHANGED tablevars

\* the slot of t takes the last slot's content and num_readers drops by one
urcu_remove_reader(t) ==
    /\ uth[t].pc = "remove_reader"
    /\ \E i \in 1 .. num_readers :
          /\ registry[i].tid = t
          /\ \A j \in 1 .. i - 1 : registry[j].tid # t
          /\ registry' = SubSeq([registry EXCEPT ![i] = registry[num_readers]],
                                1, num_readers - 1)
    /\ uth' = [uth EXCEPT ![t] = [@ EXCEPT !.pc = "unlock"]]
    /\ UNCHANGED <<urcu_gp_ctr, urcu_active_readers, alloc_readers, urcu_mutex,
                   sig_done, sig_pending>>
    /\ UNCHANGED tablevars

\* where synchronize_rcu goes on after its step of the given phase
AfterForceMb(phase) == IF phase = 0 THEN "switch" ELSE "unlock"

AfterWait(phase) == IF phase = 1 THEN "switch" ELSE "force_mb"

\* force_mb_all_threads: reset sig_done and signal every registered thread
force_mb_all_threads(t) ==
    /\ uth[t].pc = "force_mb"
    /\ IF alloc_readers = 0
       THEN /\ uth' = [uth EXCEPT ![t] =
                          [@ EXCEPT !.pc = AfterForceMb(uth[t].phase)]]
            /\ UNCHANGED <<sig_done, sig_pending>>
       ELSE /\ sig_done' = 0
            /\ sig_pending' = sig_pending \cup
                                  {registry[i].tid : i \in 1 .. num_readers}
            /\ uth' = [uth EXCEPT ![t] = [@ EXCEPT !.pc = "force_mb_wait"]]
    /\ UNCHANGED <<urcu_gp_ctr, urcu_active_readers, registry, alloc_readers,
                   urcu_mutex>>
    /\ UNCHANGED tablevars

\* force_mb_all_threads: the busy loop ends once every handler has run
force_mb_wait(t) ==
    /\ uth[t].pc = "force_mb_wait"
    /\ sig_done >= num_readers
    /\ uth' = [uth EXCEPT ![t] = [@ EXCEPT !.pc = AfterForceMb(uth[t].phase)]]
    /\ UNCHANGED <<urcu_gp_ctr, urcu_active_readers, registry, alloc_readers,
                   urcu_mutex, sig_done, sig_pending>>
    /\ UNCHANGED tablevars

\* a synchronize_rcu that flips the parity only once
switch_first_urcu_qparity(t) ==
    /\ uth[t].pc = "switch"
    /\ urcu_gp_ctr' = IF uth[t].phase = 0 THEN FlipParity(urcu_gp_ctr)
                      ELSE urcu_gp_ctr
    /\ uth' = [uth EXCEPT ![t] = [@ EXCEPT !.pc = "wait", !.phase = @ + 1,
                                           !.index = 1]]
    /\ UNCHANGED <<urcu_active_readers, registry, alloc_readers, urcu_mutex,
                   sig_done, sig_pending>>
    /\ UNCHANGED tablevars

\* switch_next_urcu_qparity, then wait_for_quiescent_state from the first slot
switch_next_urcu_qparity(t) ==
    /\ uth[t].pc = "switch"
    /\ urcu_gp_ctr' = FlipParity(urcu_gp_ctr)
    /\ uth' = [uth EXCEPT ![t] = [@ EXCEPT !.pc = "wait", !.phase = @ + 1,
                                           !.index = 1]]
    /\ UNCHANGED <<urcu_active_readers, registry, alloc_readers, urcu_mutex,
                   sig_done, sig_pending>>
    /\ UNCHANGED tablevars

\* a wait_for_quiescent_state that polls a slot again while its reader is in
\* any critical section
wait_for_no_reader(t) ==
    /\ uth[t].pc = "wait"
    /\ IF alloc_readers = 0 \/ uth[t].index > num_readers
       THEN uth' = [uth EXCEPT ![t] =
                       [@ EXCEPT !.pc = AfterWait(uth[t].phase),
                                 !.phase = IF uth[t].phase = 2 THEN 3 ELSE @]]
       ELSE /\ ~InCS(registry[uth[t].index].urcu_active_readers)
            /\ uth' = [uth EXCEPT ![t] = [@ EXCEPT !.index = @ + 1]]
    /\ UNCHANGED <<urcu_gp_ctr, urcu_active_readers, registry, alloc_readers,
                   urcu_mutex, sig_done, sig_pending>>
    /\ UNCHANGED tablevars

\* wait_for_quiescent_state: the loop over the registry; a slot whose reader
\* is in a critical section of the old parity is polled again
wait_for_quiescent_state(t) ==
    /\ uth[t].pc = "wait"
    /\ IF alloc_readers = 0 \/ uth[t].index > num_readers
       THEN uth' = [uth EXCEPT ![t] =
                       [@ EXCEPT !.pc = AfterWait(uth[t].phase),
                                 !.phase = IF uth[t].phase = 2 THEN 3 ELSE @]]
       ELSE /\ ~rcu_old_gp_ongoing(
                    registry[uth[t].index].urcu_active_readers)
            /\ uth' = [uth EXCEPT ![t] = [@ EXCEPT !.index = @ + 1]]
    /\ UNCHANGED <<urcu_gp_ctr, urcu_active_readers, registry, alloc_readers,
                   urcu_mutex, sig_done, sig_pending>>
    /\ UNCHANGED tablevars

\* force_mb_single_thread, called when the poll has run KICK_READER_LOOPS
\* times: reset sig_done and signal the reader of the slot
force_mb_single_thread(t) ==
    /\ uth[t].pc = "wait"
    /\ alloc_readers # 0
    /\ uth[t].index <= num_readers
    /\ rcu_old_gp_ongoing(registry[uth[t].index].urcu_active_readers)
    /\ sig_done' = 0
    /\ sig_pending' = sig_pending \cup {registry[uth[t].index].tid}
    /\ uth' = [uth EXCEPT ![t] = [@ EXCEPT !.pc = "kick_wait"]]
    /\ UNCHANGED <<urcu_gp_ctr, urcu_active_readers, registry, alloc_readers,
                   urcu_mutex>>
    /\ UNCHANGED tablevars

force_mb_single_wait(t) ==
    /\ uth[t].pc = "kick_wait"
    /\ sig_done >= 1
    /\ uth' = [uth EXCEPT ![t] = [@ EXCEPT !.pc = "wait"]]
    /\ UNCHANGED <<urcu_gp_ctr, urcu_active_readers, registry, alloc_readers,
                   urcu_mutex, sig_done, sig_pending>>
    /\ UNCHANGED tablevars

\* ------------------------------------------------------------------------
\* tests/test_urcu_wfs.c: enqueuer and dequeuer threads on one cds_wfs_stack
\* ------------------------------------------------------------------------
\* the end of the stack, and the addresses of the nodes malloc can return
END == 0

Addrs == 1 .. NumAddrs

\* thread ids: enqueuers first, then dequeuers; 0 is no thread
EnqIds == 1 .. MaxEnqueuers

DeqIds == MaxEnqueuers + 1 .. MaxEnqueuers + MaxDequeuers

\* locals and URCU_TLS counters of a thread of the test; loops counts the
\* iterations of its for (;;) loop, walked the nodes of the list it took
\* with pop_all that it has visited
WfsThread ==
    [pc |-> "off", counter |-> 0, node |-> END, n |-> END, loops |-> 0,
     walked |-> 0,
     nr_enqueues |-> 0, nr_successful_enqueues |-> 0,
     nr_empty_dest_enqueues |-> 0, nr_dequeues |-> 0,
     nr_successful_dequeues |-> 0, nr_pop_all |-> 0, count |-> <<0, 0, 0>>]

\* main before it reads its arguments; double_free and use_after_free record
\* a free of a node that is not allocated and a read of a freed node
WfsMain ==
    [pc |-> "off", test_pop |-> FALSE, test_pop_all |-> FALSE,
     test_sync |-> "TEST_SYNC_NONE", test_force_sync |-> FALSE,
     test_wait_empty |-> FALSE, nr_enqueuers |-> 0, nr_dequeuers |-> 0,
     warned |-> FALSE, test_go |-> 0, test_stop_enqueue |-> 0,
     test_stop_dequeue |-> 0, test_enqueue_stopped |-> 0,
     head |-> END, next |-> [a \in Addrs |-> END], alloc |-> {},
     pop_mutex |-> 0,
     thr |-> [t \in EnqIds \cup DeqIds |-> WfsThread],
     tot_enqueues |-> 0, tot_dequeues |-> 0, tot_successful_enqueues |-> 0,
     tot_successful_dequeues |-> 0, tot_empty_dest_enqueues |-> 0,
     tot_pop_all |-> 0, end_dequeues |-> 0, retval |-> 0,
     double_free |-> FALSE, use_after_free |-> FALSE]

\* the program does not run the test
NoTest == WfsMain

\* main was started with these arguments
WfsArgs(nd, ne, p, pa, m, w, f) ==
    [WfsMain EXCEPT !.pc = "args", !.nr_dequeuers = nd, !.nr_enqueuers = ne,
                    !.test_pop = p, !.test_pop_all = pa,
                    !.test_sync = IF m THEN "TEST_SYNC_MUTEX"
                                  ELSE "TEST_SYNC_NONE",
                    !.test_wait_empty = w, !.test_force_sync = f]

WfsStep(w) ==
    /\ wfs' = w
    /\ UNCHANGED listvars
    /\ UNCHANGED urcuvars

\* what a load of a->next can give: the value stored, or anything when the
\* node was freed
Deref(a) == IF a \in wfs.alloc THEN {wfs.next[a]} ELSE Addrs \cup {END}

\* free(node)
Free(w, a) ==
    [w EXCEPT !.alloc = @ \ {a}, !.double_free = @ \/ a \notin w.alloc]

\* main from its option switch to cds_wfs_init and the pthread_create loops
MainSetup ==
    /\ wfs.pc = "args"
    /\ LET pa   == wfs.test_pop_all \/ (~wfs.test_pop /\ ~wfs.test_pop_all)
           open == /\ wfs.test_sync = "TEST_SYNC_NONE"
                   /\ wfs.nr_dequeuers > 1
                   /\ wfs.test_pop
       IN  WfsStep([wfs EXCEPT
               !.pc = "go",
               !.test_pop_all = pa,
               !.warned = open /\ wfs.test_force_sync,
               !.test_sync = IF open /\ ~wfs.test_force_sync
                             THEN "TEST_SYNC_MUTEX" ELSE @,
               !.head = END,
               !.thr = [t \in EnqIds \cup DeqIds |->
                          IF \/ (t \in EnqIds /\ t <= wfs.nr_enqueuers)
                             \/ (t \in DeqIds
                                   /\ t - MaxEnqueuers <= wfs.nr_dequeuers)
                          THEN [WfsThread EXCEPT !.pc = "wait_go"]
                          ELSE WfsThread]])

\* test_go = 1
MainGo ==
    /\ wfs.pc = "go"
    /\ WfsStep([wfs EXCEPT !.pc = "sleep", !.test_go = 1])

\* the duration is over: test_stop_enqueue = 1
MainStopEnqueue ==
    /\ wfs.pc = "sleep"
    /\ WfsStep([wfs EXCEPT !.test_stop_enqueue = 1,
                           !.pc = IF wfs.test_wait_empty THEN "wait_stopped"
                                  ELSE "stop_dequeue"])

\* while (nr_enqueuers != uatomic_read(&test_enqueue_stopped)) sleep(1)
MainWaitStopped ==
    /\ wfs.pc = "wait_stopped"
    /\ wfs.nr_enqueuers = wfs.test_enqueue_stopped
    /\ WfsStep([wfs EXCEPT !.pc = "wait_empty"])

\* while (!cds_wfs_empty(&s)) sleep(1)
MainWaitEmpty ==
    /\ wfs.pc = "wait_empty"
    /\ wfs.head = END
    /\ WfsStep([wfs EXCEPT !.pc = "stop_dequeue"])

\* test_stop_dequeue = 1
MainStopDequeue ==
    /\ wfs.pc = "stop_dequeue"
    /\ WfsStep([wfs EXCEPT !.pc = "join", !.test_stop_dequeue = 1])

WfsSum(f, ids) == Sum([t \in EnqIds \cup DeqIds |-> f[t]], ids)

\* the two pthread_join loops
MainJoin ==
    /\ wfs.pc = "join"
    /\ \A t \in EnqIds \cup DeqIds : wfs.thr[t].pc \in {"off", "done"}
    /\ LET c(i) == [t \in EnqIds \cup DeqIds |-> wfs.thr[t].count[i]]
       IN  WfsStep([wfs EXCEPT
               !.pc = "test_end",
               !.tot_enqueues = WfsSum(c(1), EnqIds),
               !.tot_successful_enqueues = WfsSum(c(2), EnqIds),
               !.tot_empty_dest_enqueues = WfsSum(c(3), EnqIds),
               !.tot_dequeues = WfsSum(c(1), DeqIds),
               !.tot_successful_dequeues = WfsSum(c(2), DeqIds),
               !.tot_pop_all = WfsSum(c(3), DeqIds)])

\* test_end that counts no node
TestEndUncounted ==
    /\ wfs.pc = "test_end"
    /\ IF wfs.head = END \/ wfs.end_dequeues > NumAddrs
       THEN WfsStep([wfs EXCEPT !.pc = "check"])
       ELSE \E nx \in Deref(wfs.head) :
               WfsStep([Free(wfs, wfs.head) EXCEPT
                   !.head = nx,
                   !.use_after_free = @ \/ wfs.head \notin wfs.alloc])

\* one iteration of the loop of test_end: cds_wfs_pop_blocking, free,
\* (*nr_dequeues)++; no other thread is left; a stack that a freed node made
\* endless is left after NumAddrs + 1 nodes
TestEnd ==
    /\ wfs.pc = "test_end"
    /\ IF wfs.head = END \/ wfs.end_dequeues > NumAddrs
       THEN WfsStep([wfs EXCEPT !.pc = "check"])
       ELSE \E nx \in Deref(wfs.head) :
               WfsStep([Free(wfs, wfs.head) EXCEPT
                   !.head = nx,
                   !.end_dequeues = @ + 1,
                   !.use_after_free = @ \/ wfs.head \notin wfs.alloc])

\* the two checks at the end of main
MainCheck ==
    /\ wfs.pc = "check"
    /\ LET a == wfs.tot_successful_enqueues
                  # wfs.tot_successful_dequeues + wfs.end_dequeues
           b == /\ wfs.test_wait_empty
                /\ wfs.test_pop_all
                /\ ~wfs.test_pop
                /\ wfs.tot_empty_dest_enqueues # wfs.tot_pop_all
       IN  WfsStep([wfs EXCEPT !.pc = "done",
                               !.retval = IF a \/ b THEN 1 ELSE 0])

\* thr_enqueuer and thr_dequeuer: while (!test_go) {}; the dequeuer's counter
\* is not initialised
ThrWaitGo(t) ==
    /\ wfs.thr[t].pc = "wait_go"
    /\ wfs.test_go = 1
    /\ \E c \in {0, 1} :
          WfsStep([wfs EXCEPT
              !.thr[t].pc = IF t \in EnqIds THEN "push" ELSE "choose",
              !.thr[t].counter = IF t \in EnqIds THEN 0 ELSE c])

\* malloc, cds_wfs_node_init, cds_wfs_push and the counters of the enqueuer;
\* malloc may return NULL
EnqPush(t) ==
    /\ wfs.thr[t].pc = "push"
    /\ \/ \E a \in Addrs \ wfs.alloc :
             WfsStep([wfs EXCEPT
                 !.alloc = @ \cup {a},
                 !.next[a] = wfs.head,
                 !.head = a,
                 !.thr[t].nr_successful_enqueues = @ + 1,
                 !.thr[t].nr_empty_dest_enqueues =
                     IF wfs.head = END THEN @ + 1 ELSE @,
                 !.thr[t].nr_enqueues = @ + 1,
                 !.thr[t].loops = @ + 1,
                 !.thr[t].pc = "test"])
       \/ WfsStep([wfs EXCEPT !.thr[t].nr_enqueues = @ + 1,
                              !.thr[t].loops = @ + 1,
                              !.thr[t].pc = "test"])

\* if (!test_duration_enqueue()) break; the test stops the thread before it
\* begins iteration MaxPushes + 1
EnqTest(t) ==
    /\ wfs.thr[t].pc = "test"
    /\ t \in EnqIds
    /\ wfs.test_stop_enqueue = 1 \/ wfs.thr[t].loops < MaxPushes
    /\ WfsStep([wfs EXCEPT !.thr[t].pc = IF wfs.test_stop_enqueue = 1
                                         THEN "end" ELSE "push"])

\* uatomic_inc(&test_enqueue_stopped); count[0..2] = ...
EnqEnd(t) ==
    /\ wfs.thr[t].pc = "end"
    /\ t \in EnqIds
    /\ LET r == wfs.thr[t]
       IN  WfsStep([wfs EXCEPT
               !.test_enqueue_stopped = @ + 1,
               !.thr[t].count = <<r.nr_enqueues, r.nr_successful_enqueues,
                                  r.nr_empty_dest_enqueues>>,
               !.thr[t].pc = "done"])

\* the choice between do_test_pop and do_test_pop_all in thr_dequeuer
DeqChoose(t) ==
    /\ wfs.thr[t].pc = "choose"
    /\ LET r   == wfs.thr[t]
           pop == IF wfs.test_pop /\ wfs.test_pop_all THEN r.counter % 2 = 1
                  ELSE wfs.test_pop
       IN  WfsStep([wfs EXCEPT
               !.thr[t].pc = IF pop THEN "pop_lock" ELSE "all_lock",
               !.thr[t].loops = @ + 1,
               !.thr[t].counter =
                   IF wfs.test_pop /\ wfs.test_pop_all THEN (@ + 1) % 2 ELSE @])

\* if (sync == TEST_SYNC_MUTEX) cds_wfs_pop_lock(&s), in do_test_pop and in
\* do_test_pop_all
DeqLock(t) ==
    /\ wfs.thr[t].pc \in {"pop_lock", "all_lock"}
    /\ wfs.test_sync = "TEST_SYNC_MUTEX" => wfs.pop_mutex = 0
    /\ WfsStep([wfs EXCEPT
           !.pop_mutex = IF wfs.test_sync = "TEST_SYNC_MUTEX" THEN t ELSE @,
           !.thr[t].pc = IF wfs.thr[t].pc = "pop_lock" THEN "pop_load"
                         ELSE "all_xchg"])

\* __cds_wfs_pop_blocking: the load of s->head
PopLoad(t) ==
    /\ wfs.thr[t].pc = "pop_load"
    /\ WfsStep([wfs EXCEPT !.thr[t].node = wfs.head,
                           !.thr[t].pc = IF wfs.head = END THEN "pop_unlock"
                                         ELSE "pop_next"])

\* __cds_wfs_pop_blocking: the load of head->next
PopNext(t) ==
    /\ wfs.thr[t].pc = "pop_next"
    /\ LET a == wfs.thr[t].node
       IN  \E nx \in Deref(a) :
              WfsStep([wfs EXCEPT
                  !.use_after_free = @ \/ a \notin wfs.alloc,
                  !.thr[t].n = nx,
                  !.thr[t].pc = "pop_cas"])

\* __cds_wfs_pop_blocking: the cmpxchg of s->head from head to next
PopCas(t) ==
    /\ wfs.thr[t].pc = "pop_cas"
    /\ LET a == wfs.thr[t].node
       IN  WfsStep([wfs EXCEPT
               !.head = IF wfs.head = a THEN wfs.thr[t].n ELSE @,
               !.thr[t].n = END,
               !.thr[t].pc = IF wfs.head = a THEN "pop_unlock"
                             ELSE "pop_load"])

\* __cds_wfs_pop_all: the exchange of s->head with the end
PopAll(t) ==
    /\ wfs.thr[t].pc = "all_xchg"
    /\ WfsStep([wfs EXCEPT !.thr[t].node = wfs.head, !.head = END,
                           !.thr[t].walked = 0,
                           !.thr[t].pc = "all_unlock"])

\* if (sync == TEST_SYNC_MUTEX) cds_wfs_pop_unlock(&s)
DeqUnlock(t) ==
    /\ wfs.thr[t].pc \in {"pop_unlock", "all_unlock"}
    /\ WfsStep([wfs EXCEPT
           !.pop_mutex = IF wfs.test_sync = "TEST_SYNC_MUTEX" THEN 0 ELSE @,
           !.thr[t].pc = IF wfs.thr[t].pc = "pop_unlock" THEN "pop_count"
                         ELSE "all_first"])

\* the end of do_test_pop: free and the counters
PopCount(t) ==
    /\ wfs.thr[t].pc = "pop_count"
    /\ LET a == wfs.thr[t].node
           w == IF a = END THEN wfs ELSE Free(wfs, a)
       IN  WfsStep([w EXCEPT
               !.thr[t].nr_successful_dequeues = IF a = END THEN @ ELSE @ + 1,
               !.thr[t].nr_dequeues = @ + 1,
               !.thr[t].node = END,
               !.thr[t].pc = "test"])

\* if (cds_wfs_first(head) == NULL) return; nr_pop_all++
PopAllFirst(t) ==
    /\ wfs.thr[t].pc = "all_first"
    /\ WfsStep([wfs EXCEPT
           !.thr[t].nr_pop_all = IF wfs.thr[t].node = END THEN @ ELSE @ + 1,
           !.thr[t].pc = IF wfs.thr[t].node = END THEN "test" ELSE "all_each"])

\* a loop body that frees the node and counts nothing
PopAllEachUncounted(t) ==
    /\ wfs.thr[t].pc = "all_each"
    /\ LET a == wfs.thr[t].node
       IN  IF a = END \/ wfs.thr[t].walked > NumAddrs
           THEN WfsStep([wfs EXCEPT !.thr[t].node = END, !.thr[t].walked = 0,
                                    !.thr[t].pc = "test"])
           ELSE \E nx \in Deref(a) :
                   WfsStep([Free(wfs, a) EXCEPT
                       !.use_after_free = @ \/ a \notin wfs.alloc,
                       !.thr[t].walked = @ + 1,
                       !.thr[t].node = nx])

\* cds_wfs_for_each_blocking_safe: one node is freed and counted; a list that
\* a freed node made endless is left after NumAddrs + 1 nodes
PopAllEach(t) ==
    /\ wfs.thr[t].pc = "all_each"
    /\ LET a == wfs.thr[t].node
       IN  IF a = END \/ wfs.thr[t].walked > NumAddrs
           THEN WfsStep([wfs EXCEPT !.thr[t].node = END, !.thr[t].walked = 0,
                                    !.thr[t].pc = "test"])
           ELSE \E nx \in Deref(a) :
                   WfsStep([Free(wfs, a) EXCEPT
                       !.use_after_free = @ \/ a \notin wfs.alloc,
                       !.thr[t].nr_successful_dequeues = @ + 1,
                       !.thr[t].nr_dequeues = @ + 1,
                       !.thr[t].walked = @ + 1,
                       !.thr[t].node = nx])

\* if (!test_duration_dequeue()) break; the test stops the thread before it
\* begins iteration MaxLoops + 1
DeqTest(t) ==
    /\ wfs.thr[t].pc = "test"
    /\ t \in DeqIds
    /\ wfs.test_stop_dequeue = 1 \/ wfs.thr[t].loops < MaxLoops
    /\ WfsStep([wfs EXCEPT !.thr[t].pc = IF wfs.test_stop_dequeue = 1
                                         THEN "end" ELSE "choose"])

\* count[0..2] = ...
DeqEnd(t) ==
    /\ wfs.thr[t].pc = "end"
    /\ t \in DeqIds
    /\ LET r == wfs.thr[t]
       IN  WfsStep([wfs EXCEPT
               !.thr[t].count = <<r.nr_dequeues, r.nr_successful_dequeues,
                                  r.nr_pop_all>>,
               !.thr[t].pc = "done"])

\* ------------------------------------------------------------------------
\* Specification: two worker threads and one creating / resizing thread
\* ------------------------------------------------------------------------
InitSizes == 0 .. Pow2(MaxOrder)

NewSizes == 0 .. Pow2(MaxOrder)

UniqueSizes == {1, 2}

PowerSizes == {Pow2(o) : o \in 0 .. MaxOrder}

\* urcu.c before any thread has registered; reads and syncs are what each
\* thread may still begin
UrcuStart(reads, syncs) ==
    /\ urcu_gp_ctr = RCU_GP_COUNT
    /\ urcu_active_readers = [t \in Threads |-> 0]
    /\ registry = <<>>
    /\ alloc_readers = 0
    /\ urcu_mutex = "none"
    /\ sig_done = 0
    /\ sig_pending = {}
    /\ uth = [t \in Threads |->
                 [UthInit EXCEPT !.nread = reads[t], !.nsync = syncs[t]]]

\* the same in a program that does not run the stack test
UrcuInit(reads, syncs) == UrcuStart(reads, syncs) /\ wfs = NoTest

\* the state before cds_lfht_new; ops, sects, resizes and destroys are what
\* each thread may still begin
TableInitDestroy(ops, sects, resizes, destroys) ==
    /\ node_next = [n \in AllNodes |-> get_end]
    /\ node_reverse_hash = [n \in AllNodes |-> 0]
    /\ node_key = [n \in UserNodes |-> NoKey]
    /\ size = 0
    /\ resize_target = 0
    /\ resize_initiated = 0
    /\ tbl = [o \in 0 .. MaxOrder |-> "null"]
    /\ in_progress_resize = 0
    /\ in_progress_destroy = 0
    /\ resize_mutex = "none"
    /\ flags = {}
    /\ count = 0
    /\ percpu_count = NoCounters
    /\ ht = "none"
    /\ th = [t \in Threads |->
                [ThreadInit EXCEPT !.nops = ops[t], !.nsect = sects[t],
                                   !.nresize = resizes[t],
                                   !.ndestroy = destroys[t]]]
    /\ rcu_nest = [t \in Threads |-> 0]
    /\ rcu_offline = [t \in Threads |-> FALSE]
    /\ gp_wait = [t \in Threads |-> {}]
    /\ cb_queue = <<>>
    /\ faults = {}

NoCalls == [t \in Threads |-> 0]

TableInit(ops, sects, resizes) == TableInitDestroy(ops, sects, resizes, NoCalls)

InitWith(ops, sects, resizes) ==
    TableInit(ops, sects, resizes) /\ UrcuInit(NoCalls, NoCalls)

ListStep(t) ==
    \/ AddHead(t) \/ AddNext(t) \/ AddInsert(t)
    \/ GcHead(t) \/ GcNext(t) \/ GcCas(t)
    \/ DelRead(t) \/ DelCas(t)
    \/ LookupHead(t) \/ LookupNext(t)

\* steps that only follow a step of another thread
HelpStep(t) == AddGc(t)

TraverseStep(t) == ApiFirst(t) \/ ApiNext(t) \/ NextWalk(t)

CountStep(t) == CountAdd(t) \/ CountDel(t)

InitTableStep(t) ==
    \/ InitCheck(t) \/ Populate(t) \/ InitStoreSize(t) \/ InitCheckDestroy(t)
    \/ NewUnlock(t)

ResizeStep(t) ==
    \/ FiniCheck(t) \/ FiniStoreSize(t) \/ FiniSync(t) \/ Remove(t)
    \/ FiniCheckDestroy(t) \/ FiniTail(t) \/ FiniTailSync(t)
    \/ ResizeLoop(t) \/ ResizeSetInitiated(t) \/ ResizeRead(t)
    \/ ResizeClearInitiated(t) \/ ResizeTest(t)
    \/ ResizeCallSetInitiated(t) \/ ResizeOffline(t) \/ ResizeLock(t)
    \/ ResizeUnlock(t) \/ ResizeOnline(t)

UniqueAdd(t, k) == ApiAdd(t, "add_unique", k) \/ ApiAdd(t, "add_replace", k)

UniqueCall(t, k) ==
    \/ UniqueAdd(t, k)
    \/ ApiLookup(t, k)
    \/ ApiDel(t)

Call(t, k) == ApiAdd(t, "add", k) \/ UniqueCall(t, k)

Section(t) == RcuReadLock(t) \/ RcuReadUnlock(t)

\* ------------------------------------------------------------------------
\* One thread creates tables of every size, then makes calls one after another
\* ------------------------------------------------------------------------
OneWorker == [t \in Threads |-> IF t = "w1" THEN 1 ELSE 0]

OneSection == [t \in Threads |-> OneWorker[t] * MaxSections]

InitSeq == InitWith([t \in Threads |-> OneWorker[t] * MaxOpsSeq], OneSection,
                    [t \in Threads |-> 0])

\* init_size 0, a power of two and a number that is none
SeqSizes == {0, 2, 3}

\* the last call of the sequence reads or deletes, it adds nothing
SeqCall(t, k) ==
    \/ ~LastOfCalls(t) /\ ApiAdd(t, "add", k)
    \/ ~LastOfCalls(t) /\ UniqueAdd(t, k)
    \/ ApiLookup(t, k)
    \/ ApiDel(t)

NextSeq ==
    \/ \E s \in SeqSizes : New(Resizer, s, {}, TRUE)
    \/ InitTableStep(Resizer)
    \/ ListStep(Resizer)
    \/ Section("w1")
    \/ \E k \in Keys : SeqCall("w1", k)
    \/ TraverseStep("w1")
    \/ ListStep("w1")
    \/ ReplaceCas("w1")
    \/ CountStep("w1")

SpecSeq == InitSeq /\ [][NextSeq]_vars

\* ------------------------------------------------------------------------
\* The same, with cds_lfht_replace among the calls
\* ------------------------------------------------------------------------
InitReplace == InitWith([t \in Threads |-> OneWorker[t] * MaxOpsReplace],
                        OneSection, [t \in Threads |-> 0])

\* what p.reverse_hash of the new node of a replace may hold: the least word,
\* the reverse hash of its key and the greatest word
ReplaceHashes(k) == {0, bit_reverse_ulong(hash_fct(k)), WordMax}

\* the table is created with the largest size
NextReplace ==
    \/ New(Resizer, Pow2(MaxOrder), {}, FALSE)
    \/ InitTableStep(Resizer)
    \/ ListStep(Resizer)
    \/ Section("w1")
    \/ \E k \in Keys : Call("w1", k)
    \/ \E k \in Keys : \E v \in ReplaceHashes(k) : ApiReplace("w1", k, v)
    \/ ListStep("w1")
    \/ ReplaceCas("w1")

SpecReplace == InitReplace /\ [][NextReplace]_vars

\* ------------------------------------------------------------------------
\* One thread makes calls while another resizes the table
\* ------------------------------------------------------------------------
OneResizer == [t \in Threads |-> IF t = Resizer THEN MaxResizes ELSE 0]

InitResize == InitWith([t \in Threads |-> OneWorker[t] * MaxOps], OneSection,
                       OneResizer)

\* the table is created with one bucket or with two
ResizeInits == {1, 2}

\* the first call of the worker adds a node
ResizeCalls(t, k) ==
    \/ ApiAdd(t, "add", k)
    \/ UniqueAdd(t, k)
    \/ ~NoCallYet /\ ApiLookup(t, k)
    \/ ~NoCallYet /\ ApiDel(t)
    \/ ~NoCallYet /\ TraverseStep(t)

\* new_size 0, a power of two and a number that is none
ResizeTargets == {0, 2, 3}

NextResize ==
    \/ \E s \in ResizeInits : New(Resizer, s, {}, FALSE)
    \/ \E s \in ResizeTargets : ResizeCall(Resizer, s)
    \/ InitTableStep(Resizer)
    \/ ResizeStep(Resizer)
    \/ ListStep(Resizer)
    \/ Section("w1")
    \/ \E k \in Keys : ResizeCalls("w1", k)
    \/ ListStep("w1")
    \/ ReplaceCas("w1")
    \/ HelpStep("w1")

SpecResize == InitResize /\ [][NextResize]_vars

\* ------------------------------------------------------------------------
\* One thread makes calls while two others resize the table
\* ------------------------------------------------------------------------
Resizers == {Resizer, "w2"}

InitShrink == InitWith([t \in Threads |-> OneWorker[t] * MaxOpsOther], OneSection,
                       [t \in Threads |-> IF t \in Resizers THEN MaxResizes
                                          ELSE 0])

\* one thread shrinks the table to one bucket while the other resizes it to
\* one bucket or to two
ShrinkTargets(t) == IF t = Resizer THEN {1} ELSE {1, 2}

\* the table is created with the largest size
NextShrink ==
    \/ New(Resizer, Pow2(MaxOrder), {}, FALSE)
    \/ \E t \in Resizers : \E s \in ShrinkTargets(t) : ResizeCall(t, s)
    \/ \E t \in Resizers : InitTableStep(t)
    \/ \E t \in Resizers : ResizeStep(t)
    \/ \E t \in Threads : ListStep(t)
    \/ Section("w1")
    \/ \E k \in Keys : Call("w1", k)
    \/ ApiFirst("w1")
    \/ NextWalk("w1")
    \/ HelpStep("w1")

SpecShrink == InitShrink /\ [][NextShrink]_vars

\* ------------------------------------------------------------------------
\* One thread calls add_unique, add_replace, lookup and del on one key,
\* another calls add_unique on the same key, and a third resizes the table
\* ------------------------------------------------------------------------
InitUnique == InitWith([t \in Threads |-> IF t = "w1" THEN MaxOps
                                           ELSE IF t = "w2" THEN MaxOpsOther
                                           ELSE 0],
                       [t \in Threads |-> IF t \in Workers THEN MaxSections ELSE 0],
                       OneResizer)

\* lookup and del are called once a node was added
UniqueRace(t, k) ==
    \/ UniqueAdd(t, k)
    \/ ~NoCallYet /\ ApiLookup(t, k)
    \/ ~NoCallYet /\ ApiDel(t)

\* the table is created with two buckets and shrunk to one
NextUnique ==
    \/ New(Resizer, 2, {}, FALSE)
    \/ \E s \in UniqueSizes \ {size} : ResizeCall(Resizer, s)
    \/ InitTableStep(Resizer)
    \/ ResizeStep(Resizer)
    \/ \E t \in Threads : ListStep(t)
    \/ \E t \in Workers : ReplaceCas(t)
    \/ \E t \in Workers : HelpStep(t)
    \/ \E t \in Workers : Section(t)
    \/ \E k \in UniqueKeys : UniqueRace("w1", k)
    \/ \E k \in UniqueKeys : ApiAdd("w2", "add_unique", k)

SpecUnique == InitUnique /\ [][NextUnique]_vars

\* ------------------------------------------------------------------------
\* Two threads add, look up, delete and replace nodes of one key in a table
\* that is not resized
\* ------------------------------------------------------------------------
\* the first call of all is an add of thread w1
RaceCall(t, k) ==
    \/ (NoCallYet => t = "w1") /\ ApiAdd(t, "add", k)
    \/ ~NoCallYet /\ ApiLookup(t, k)
    \/ ~NoCallYet /\ ApiDel(t)
    \/ \E v \in ReplaceHashes(k) : ~NoCallYet /\ ApiReplace(t, k, v)

InitRace == InitWith([t \in Threads |-> IF t = "w1" THEN MaxOpsReplace
                                         ELSE IF t = "w2" THEN MaxOps
                                         ELSE 0],
                     [t \in Threads |-> IF t \in Workers THEN MaxSections ELSE 0],
                     NoCalls)

NextRace ==
    \/ \E s \in {2} : New(Resizer, s, {}, FALSE)
    \/ InitTableStep(Resizer)
    \/ ListStep(Resizer)
    \/ \E t \in Workers : Section(t)
    \/ \E t \in Workers, k \in UniqueKeys : RaceCall(t, k)
    \/ \E t \in Workers : ListStep(t)
    \/ \E t \in Workers : ReplaceCas(t)
    \/ \E t \in Workers : HelpStep(t)

SpecRace == InitRace /\ [][NextRace]_vars

\* ------------------------------------------------------------------------
\* One thread adds, looks up, deletes and counts the nodes while another
\* adds a node of the same key, in a table that is not resized
\* ------------------------------------------------------------------------
CountNodesStep(t) == CountNodesWalk(t) \/ CountNodesAfter(t)

\* the thread adds, looks up and deletes, and its last call counts the nodes
NodesCall(t, k) ==
    \/ ~LastOfCalls(t) /\ ApiAdd(t, "add", k)
    \/ ~LastOfCalls(t) /\ ~NoCallYet /\ ApiLookup(t, k)
    \/ ~LastOfCalls(t) /\ ~NoCallYet /\ ApiDel(t)
    \/ LastOfCalls(t) /\ ApiCountNodes(t)

InitNodes == InitWith([t \in Threads |-> IF t = "w1" THEN MaxOpsSeq
                                          ELSE IF t = "w2" THEN MaxOpsOther
                                          ELSE 0],
                      [t \in Threads |-> IF t \in Workers THEN MaxSections ELSE 0],
                      NoCalls)

NextNodes ==
    \/ \E s \in UniqueSizes : New(Resizer, s, {}, TRUE)
    \/ InitTableStep(Resizer)
    \/ \E t \in Threads : ListStep(t)
    \/ \E t \in Workers : HelpStep(t)
    \/ \E t \in Workers : Section(t)
    \/ \E t \in Workers : CountStep(t)
    \/ \E k \in UniqueKeys : NodesCall("w1", k)
    \/ CountNodesStep("w1")
    \/ \E k \in UniqueKeys : UniqueAdd("w2", k)
    \/ ReplaceCas("w2")

SpecNodes == InitNodes /\ [][NextNodes]_vars

\* ------------------------------------------------------------------------
\* One thread adds, looks up and deletes nodes of one key while another adds
\* one, in a table of size 1 in which every per-CPU cell has counted as many
\* dels as adds, one or two short of the next fold into the global count
\* ------------------------------------------------------------------------
CountBases == {Pow2(COUNT_COMMIT_ORDER) - 2, Pow2(COUNT_COMMIT_ORDER) - 1}

FoldStep(t) == CountAddFold(t) \/ CountDelFold(t) \/ ResizeLazyCount(t)

InitApprox ==
    /\ node_next = [n \in AllNodes |->
                       IF n = D(0) THEN flag_dummy(get_end) ELSE get_end]
    /\ node_reverse_hash = [n \in AllNodes |-> 0]
    /\ node_key = [n \in UserNodes |-> NoKey]
    /\ size = 1
    /\ resize_target = 1
    /\ resize_initiated = 0
    /\ tbl = [o \in 0 .. MaxOrder |-> IF o = 0 THEN "alloc" ELSE "null"]
    /\ in_progress_resize = 0
    /\ in_progress_destroy = 0
    /\ resize_mutex = "none"
    /\ flags = {}
    /\ count = 0
    /\ percpu_count \in [Cpus -> {[add |-> b, del |-> b] : b \in CountBases}]
    /\ ht = "live"
    /\ th = [t \in Threads |->
                [ThreadInit EXCEPT !.nops = IF t = "w1" THEN MaxOpsReplace
                                            ELSE IF t = "w2" THEN MaxOpsOther
                                            ELSE 0,
                                   !.nsect = IF t \in Workers THEN MaxSections
                                             ELSE 0]]
    /\ rcu_nest = [t \in Threads |-> 0]
    /\ rcu_offline = [t \in Threads |-> FALSE]
    /\ gp_wait = [t \in Threads |-> {}]
    /\ cb_queue = <<>>
    /\ faults = {}
    /\ UrcuInit(NoCalls, NoCalls)

NextApprox ==
    \/ \E t \in Workers : Section(t)
    \/ \E t \in Workers, k \in UniqueKeys : ApiAdd(t, "add", k)
    \/ \E k \in UniqueKeys : ApiLookup("w1", k)
    \/ ApiDel("w1")
    \/ \E t \in Workers : ListStep(t)
    \/ \E t \in Workers : HelpStep(t)
    \/ \E t \in Workers : CountStep(t)
    \/ \E t \in Workers : FoldStep(t)

SpecApprox == InitApprox /\ [][NextApprox]_vars

\* ------------------------------------------------------------------------
\* One thread resizes the table while a reader adds or looks up a node; every
\* thread that can take a step eventually takes one, and the reader
\* eventually leaves its critical section
\* ------------------------------------------------------------------------
InitTerm == InitWith([t \in Threads |-> OneWorker[t] * MaxOpsOther], OneSection,
                     OneResizer)

ResizerRun ==
    \/ InitTableStep(Resizer)
    \/ ResizeStep(Resizer)
    \/ ListStep(Resizer)

ReaderRun ==
    \/ ListStep("w1")
    \/ HelpStep("w1")
    \/ RcuReadUnlock("w1")

NextTerm ==
    \/ \E s \in PowerSizes : New(Resizer, s, {}, FALSE)
    \/ \E s \in NewSizes : ResizeCall(Resizer, s)
    \/ ResizerRun
    \/ RcuReadLock("w1")
    \/ \E k \in Keys : ApiAdd("w1", "add", k)
    \/ \E k \in Keys : ApiLookup("w1", k)
    \/ ReaderRun

SpecTerm ==
    /\ InitTerm
    /\ [][NextTerm]_vars
    /\ WF_vars(ResizerRun)
    /\ WF_vars(ReaderRun)

\* ------------------------------------------------------------------------
\* One thread creates a table, resizes it and, once the thread that adds,
\* looks up and deletes nodes has left its critical section, destroys it
\* ------------------------------------------------------------------------
DestroyStep(t) ==
    \/ DestroyPoll(t) \/ DeleteDummyWalk(t) \/ DeleteDummyFree(t)
    \/ DestroyFree(t)

\* no reader nor writer can access the table any more
Unused == \A t \in Threads : th[t].pc = "idle" /\ rcu_nest[t] = 0

OneDestroyer == [t \in Threads |-> IF t = Resizer THEN MaxDestroys ELSE 0]

InitDestroy ==
    /\ TableInitDestroy([t \in Threads |-> OneWorker[t] * MaxOpsReplace],
                        OneSection, OneResizer, OneDestroyer)
    /\ UrcuInit(NoCalls, NoCalls)

\* the table has one bucket or two, and the first call of the worker adds a
\* node
NextDestroy ==
    \/ \E s \in UniqueSizes : New(Resizer, s, {}, FALSE)
    \/ \E s \in UniqueSizes : Unused /\ ResizeCall(Resizer, s)
    \/ InitTableStep(Resizer)
    \/ ResizeStep(Resizer)
    \/ ListStep(Resizer)
    \/ Section("w1")
    \/ \E k \in Keys : ApiAdd("w1", "add", k)
    \/ \E k \in Keys : ~NoCallYet /\ ApiLookup("w1", k)
    \/ ~NoCallYet /\ ApiDel("w1")
    \/ ListStep("w1")
    \/ Unused /\ Destroy(Resizer)
    \/ DestroyStep(Resizer)

SpecDestroy == InitDestroy /\ [][NextDestroy]_vars

\* ------------------------------------------------------------------------
\* One thread adds, looks up and deletes nodes and is scheduled again and
\* again while it is inside a call; another does the same and may stop for
\* ever at any step, between the two steps of a removal too; the first thread
\* begins once the other has begun its last call
\* ------------------------------------------------------------------------
WorkerRun ==
    \/ ListStep("w1")
    \/ HelpStep("w1")
    \/ ReplaceCas("w1")

\* the other thread has begun the last of its calls
WriterDone == th["w2"].nops = 0

InitProgress == InitWith([t \in Threads |-> IF t = "w1" THEN MaxOps
                                             ELSE IF t = "w2" THEN MaxOpsReplace
                                             ELSE 0],
                         [t \in Threads |-> IF t \in Workers THEN MaxSections
                                            ELSE 0],
                         NoCalls)

NextProgress ==
    \/ \E s \in UniqueSizes : New(Resizer, s, {}, FALSE)
    \/ InitTableStep(Resizer)
    \/ ListStep(Resizer)
    \/ Section("w2")
    \/ WriterDone /\ RcuReadLock("w1")
    \/ RcuReadUnlock("w1")
    \/ \E k \in UniqueKeys : Call("w1", k)
    \/ WorkerRun
    \/ \E k \in UniqueKeys : ApiAdd("w2", "add", k)
    \/ \E k \in UniqueKeys : ApiLookup("w2", k)
    \/ ApiDel("w2")
    \/ ListStep("w2")
    \/ HelpStep("w2")

SpecProgress ==
    /\ InitProgress
    /\ [][NextProgress]_vars
    /\ WF_vars(WorkerRun)

\* ------------------------------------------------------------------------
\* One thread traverses the table with first and next and counts its nodes
\* while another adds, looks up and deletes nodes
\* ------------------------------------------------------------------------
\* the traversal of the test: first, then next until the iterator holds no
\* node, then count_nodes
WalkCall(t) ==
    \/ th[t].hist = <<>> /\ ApiFirst(t)
    \/ th[t].it_node # NULL /\ ApiNext(t)
    \/ th[t].it_node = NULL /\ IterSet(t) /\ ApiCountNodes(t)

InitTraverse == InitWith([t \in Threads |-> IF t \in Workers THEN MaxOpsSeq
                                             ELSE 0],
                         [t \in Threads |-> IF t \in Workers THEN MaxSections
                                            ELSE 0],
                         NoCalls)

\* the traversal begins once the writer has begun its last call; the steps of
\* that call, the unlink of a removed node among them, run at any time
\* the first call of the writer adds a node, its last two calls add none
TraverseWrite(t, k) ==
    \/ th[t].nops > 2 /\ ApiAdd(t, "add", k)
    \/ th[t].nops < MaxOpsSeq /\ ApiLookup(t, k)
    \/ th[t].nops < MaxOpsSeq /\ ApiDel(t)

NextTraverse ==
    \/ \E s \in UniqueSizes : New(Resizer, s, {}, FALSE)
    \/ InitTableStep(Resizer)
    \/ \E t \in Threads : ListStep(t)
    \/ Section("w2")
    \/ WriterDone /\ RcuReadLock("w1")
    \/ RcuReadUnlock("w1")
    \/ WalkCall("w1")
    \/ NextWalk("w1")
    \/ CountNodesStep("w1")
    \/ \E k \in Keys : TraverseWrite("w2", k)

SpecTraverse == InitTraverse /\ [][NextTraverse]_vars

\* ------------------------------------------------------------------------
\* A table of size 1 created with CDS_LFHT_AUTO_RESIZE that holds three nodes
\* of different hashes: the walk of the next add counts a chain of
\* CHAIN_LEN_RESIZE_THRESHOLD nodes and check_resize asks for a lazy resize.
\* One thread adds, the call_rcu worker thread runs the callbacks, and a third
\* thread destroys the table
\* ------------------------------------------------------------------------
\* the keys of the nodes the table holds, in the order of the list
LazyKeys == <<2, 1, 3>>

\* the call_rcu worker thread
CallRcuThread == Resizer

LazyTableWith(keys, fl, cnt, cells, ops, sects, resizes, destroys) ==
    /\ node_next = [n \in AllNodes |->
                       IF n = D(0) THEN flag_dummy(Ptr(U(1)))
                       ELSE IF IsUserNode(n) /\ n[2] < Len(keys)
                       THEN Ptr(U(n[2] + 1))
                       ELSE get_end]
    /\ node_reverse_hash = [n \in AllNodes |->
                               IF IsUserNode(n) /\ n[2] <= Len(keys)
                               THEN bit_reverse_ulong(hash_fct(keys[n[2]]))
                               ELSE 0]
    /\ node_key = [n \in UserNodes |->
                      IF n[2] <= Len(keys) THEN keys[n[2]] ELSE NoKey]
    /\ size = 1
    /\ resize_target = 1
    /\ resize_initiated = 0
    /\ tbl = [o \in 0 .. MaxOrder |-> IF o = 0 THEN "alloc" ELSE "null"]
    /\ in_progress_resize = 0
    /\ in_progress_destroy = 0
    /\ resize_mutex = "none"
    /\ flags = fl
    /\ count = cnt
    /\ percpu_count = cells
    /\ ht = "live"
    /\ th = [t \in Threads |->
                [ThreadInit EXCEPT !.nops = ops[t], !.nsect = sects[t],
                                   !.nresize = resizes[t],
                                   !.ndestroy = destroys[t]]]
    /\ rcu_nest = [t \in Threads |-> 0]
    /\ rcu_offline = [t \in Threads |-> FALSE]
    /\ gp_wait = [t \in Threads |-> {}]
    /\ cb_queue = <<>>
    /\ faults = {}
    /\ UrcuInit(NoCalls, NoCalls)

\* the table with CDS_LFHT_AUTO_RESIZE and without per-CPU cells
LazyTable(ops, sects, resizes, destroys) ==
    LazyTableWith(LazyKeys, {"AUTO_RESIZE"}, 0, NoCounters,
                  ops, sects, resizes, destroys)

LazyStep(t) ==
    \/ LazyReadTarget(t) \/ LazyCasTarget(t) \/ LazyReadInitiated(t)
    \/ LazyInc(t) \/ LazyCheckDestroy(t) \/ LazyDec(t) \/ LazyCallRcu(t)
    \/ LazySetInitiated(t)

AddStep(t) == AddHead(t) \/ AddNext(t) \/ AddInsert(t)

GrowStep(t) ==
    \/ ResizeLoop(t) \/ ResizeSetInitiated(t) \/ ResizeRead(t)
    \/ InitCheck(t) \/ Populate(t) \/ InitStoreSize(t) \/ InitCheckDestroy(t)
    \/ ResizeClearInitiated(t) \/ ResizeTest(t)

CbStep(t) ==
    \/ CbStart(t) \/ CbLock(t) \/ CbUnlock(t) \/ CbOnline(t) \/ CbDec(t)

OtherDestroyer == [t \in Threads |-> IF t = "w2" THEN MaxDestroys ELSE 0]

InitLazyDestroy ==
    LazyTable([t \in Threads |-> OneWorker[t] * MaxOpsOther], OneSection,
              NoCalls, OtherDestroyer)

NextLazyDestroy ==
    \/ Section("w1")
    \/ \E k \in Keys : ApiAdd("w1", "add", k)
    \/ \E t \in {"w1", CallRcuThread} : AddStep(t)
    \/ LazyStep("w1")
    \/ CbStep(CallRcuThread)
    \/ GrowStep(CallRcuThread)
    \/ Destroy("w2")
    \/ DestroyPoll("w2")
    \/ DeleteDummyWalk("w2")

SpecLazyDestroy == InitLazyDestroy /\ [][NextLazyDestroy]_vars

\* ------------------------------------------------------------------------
\* The split counter of a table with CDS_LFHT_AUTO_RESIZE: two threads call
\* ht_count_add and ht_count_del with the size of the table, whose cells are
\* one or two short of the next fold, and the folds ask for lazy resizes. The
\* table has one cell more than NrCpus; the callbacks stay queued
\* ------------------------------------------------------------------------
\* the sizes of the table: the folds compare them with count / 2^3
FoldSizes ==
    {Pow2(COUNT_COMMIT_ORDER - CHAIN_LEN_RESIZE_THRESHOLD) * k : k \in {1, 4, 32}}

\* the global counts the table starts with
FoldCounts == {Pow2(COUNT_COMMIT_ORDER) * k : k \in 0 .. 3}

\* cds_lfht_add and cds_lfht_del call ht_count_add(ht, size) and
\* ht_count_del(ht, size) with the size they have read
CountCall(t, op) ==
    /\ CanCall(t)
    /\ percpu_count # NoCounters
    /\ th' = [th EXCEPT ![t] =
                 [Begin(t, op, NoKey) EXCEPT
                      !.pc = IF op = "del" THEN "count_del" ELSE "count_add",
                      !.size = size]]
    /\ UNCHANGED <<heap, tvars, hvars, cvars, rcuvars, faults>>
    /\ UNCHANGED uvars

LazyCountStep(t) ==
    \/ LazyCountSetTarget(t) \/ LazyCountReadInitiated(t)
    \/ LazyInc(t) \/ LazyCheckDestroy(t) \/ LazyCallRcu(t)
    \/ LazySetInitiated(t)

InitCount ==
    /\ node_next = [n \in AllNodes |->
                       IF n = D(0) THEN flag_dummy(get_end) ELSE get_end]
    /\ node_reverse_hash = [n \in AllNodes |-> 0]
    /\ node_key = [n \in UserNodes |-> NoKey]
    /\ size \in FoldSizes
    /\ resize_target = size
    /\ resize_initiated = 0
    /\ tbl = [o \in 0 .. MaxOrder |-> "alloc"]
    /\ in_progress_resize = 0
    /\ in_progress_destroy = 0
    /\ resize_mutex = "none"
    /\ flags = {"AUTO_RESIZE"}
    /\ count \in FoldCounts
    /\ percpu_count \in [0 .. NrCpus -> {[add |-> b, del |-> b] : b \in CountBases}]
    /\ ht = "live"
    /\ th = [t \in Threads |->
                [ThreadInit EXCEPT !.nops = IF t \in Workers THEN MaxOpsOther
                                            ELSE 0,
                                   !.nsect = IF t \in Workers THEN MaxSections
                                             ELSE 0]]
    /\ rcu_nest = [t \in Threads |-> 0]
    /\ rcu_offline = [t \in Threads |-> FALSE]
    /\ gp_wait = [t \in Threads |-> {}]
    /\ cb_queue = <<>>
    /\ faults = {}
    /\ UrcuInit(NoCalls, NoCalls)

NextCount ==
    \/ \E t \in Workers : Section(t)
    \/ \E t \in Workers, op \in {"add", "del"} : CountCall(t, op)
    \/ \E t \in Workers : CountStep(t)
    \/ \E t \in Workers : CountAddFold(t) \/ CountDelFold(t)
    \/ \E t \in Workers : LazyCountStep(t)

SpecCount == InitCount /\ [][NextCount]_vars

\* ------------------------------------------------------------------------
\* Creation, direct resizes and lazy resizes together: a table is created with
\* CDS_LFHT_AUTO_RESIZE, or holds a full chain already; one thread adds and
\* looks up nodes, another calls cds_lfht_resize, the call_rcu worker thread
\* runs the callbacks
\* ------------------------------------------------------------------------
OtherResizer == [t \in Threads |-> IF t = "w2" THEN MaxResizes ELSE 0]

OneAdd == [t \in Threads |-> OneWorker[t] * MaxOps]

\* the steps of cds_lfht_resize_lazy in a table that is not being destroyed
LazyLiveStep(t) ==
    \/ LazyReadTarget(t) \/ LazyCasTarget(t) \/ LazyReadInitiated(t)
    \/ LazyInc(t) \/ LazyCheckDestroy(t) \/ LazyCallRcu(t)
    \/ LazySetInitiated(t)

InitMutex ==
    \/ InitWith(OneAdd, OneSection, OtherResizer)
    \/ LazyTable(OneAdd, OneSection, OtherResizer, NoCalls)

NextMutex ==
    \/ \E s \in PowerSizes : New(Resizer, s, {"AUTO_RESIZE"}, FALSE)
    \/ \E s \in PowerSizes : ResizeCall("w2", s)
    \/ \E t \in {"w2", CallRcuThread} : InitTableStep(t)
    \/ \E t \in {"w2", CallRcuThread} : ResizeStep(t)
    \/ \E t \in Threads : ListStep(t)
    \/ Section("w1")
    \/ \E k \in Keys : ApiAdd("w1", "add", k)
    \/ \E k \in Keys : ApiLookup("w1", k)
    \/ LazyLiveStep("w1")
    \/ CbStep(CallRcuThread)

SpecMutex == InitMutex /\ [][NextMutex]_vars

\* ------------------------------------------------------------------------
\* The chain-length heuristic: one thread adds a node to the table that holds
\* a full chain, with or without CDS_LFHT_AUTO_RESIZE, and with a global
\* count below or at 2^COUNT_COMMIT_ORDER; the call_rcu worker thread runs the
\* callbacks
\* ------------------------------------------------------------------------
\* the keys of the chain: the first chain of the second sequence holds a key
\* whose hash is that of the order-0 dummy
ChainKeys == {LazyKeys, <<Pow2(HashBits), 2, 1>>}

\* the cells of a table with Len(LazyKeys) nodes whose global count is cnt
ChainCells(cnt) ==
    [c \in Cpus |-> [add |-> max(cnt, Len(LazyKeys)),
                     del |-> max(cnt, Len(LazyKeys)) - Len(LazyKeys)]]

ChainCounts == {0, Pow2(COUNT_COMMIT_ORDER)}

InitChain ==
    \E keys \in ChainKeys, fl \in {{}, {"AUTO_RESIZE"}}, cnt \in ChainCounts :
        LazyTableWith(keys, fl, cnt, ChainCells(cnt),
                      [t \in Threads |-> OneWorker[t] * MaxOpsOther],
                      OneSection, NoCalls, NoCalls)

NextChain ==
    \/ Section("w1")
    \/ \E k \in Keys, op \in {"add", "add_unique"} : ApiAdd("w1", op, k)
    \/ \E t \in {"w1", CallRcuThread} : AddStep(t)
    \/ LazyLiveStep("w1")
    \/ CountAdd("w1")
    \/ CbStep(CallRcuThread)
    \/ GrowStep(CallRcuThread)

SpecChain == InitChain /\ [][NextChain]_vars

\* ------------------------------------------------------------------------
\* The table with CDS_LFHT_AUTO_RESIZE and a full chain: one thread adds a
\* node and triggers a lazy resize, another calls resize, the call_rcu worker
\* thread runs the callbacks. Every thread keeps running and the adding
\* thread leaves its critical section
\* ------------------------------------------------------------------------
InitInitiated == LazyTable(OneAdd, OneSection, OtherResizer, NoCalls)

\* the steps of add, of the insertion and of the removal of a dummy
WriteStep(t) ==
    \/ AddHead(t) \/ AddNext(t) \/ AddInsert(t)
    \/ GcHead(t) \/ GcNext(t) \/ GcCas(t)
    \/ DelRead(t) \/ DelCas(t)

TriggerRun ==
    \/ WriteStep("w1")
    \/ LazyLiveStep("w1")
    \/ RcuReadUnlock("w1")

ResizeRun(t) ==
    \/ InitCheck(t) \/ Populate(t) \/ InitStoreSize(t) \/ InitCheckDestroy(t)
    \/ ResizeStep(t)
    \/ WriteStep(t)

NextInitiated ==
    \/ RcuReadLock("w1")
    \/ \E k \in Keys : ApiAdd("w1", "add", k)
    \/ TriggerRun
    \/ \E s \in PowerSizes : ResizeCall("w2", s)
    \/ \E t \in {"w2", CallRcuThread} : ResizeRun(t)
    \/ CbStep(CallRcuThread)

SpecInitiated ==
    /\ InitInitiated
    /\ [][NextInitiated]_vars
    /\ WF_vars(TriggerRun)
    /\ WF_vars(ResizeRun("w2"))
    /\ WF_vars(ResizeRun(CallRcuThread) \/ CbStep(CallRcuThread))

\* ------------------------------------------------------------------------
\* urcu.c: two readers register, enter and leave read-side critical
\* sections, one of them more often than the other, and unregister while a
\* third thread calls synchronize_rcu
\* ------------------------------------------------------------------------
InitUrcu ==
    /\ TableInit(NoCalls, NoCalls, NoCalls)
    /\ UrcuInit([t \in Threads |-> IF t = "w1" THEN MaxReads
                                    ELSE IF t = "w2" THEN MaxReadsOther
                                    ELSE 0],
                [t \in Threads |-> IF t \in Writers THEN MaxSyncs ELSE 0])

NextUrcu ==
    \/ \E t \in Readers : urcu_register_thread(t)
    \/ \E t \in Readers : urcu_unregister_thread(t)
    \/ \E t \in Readers : rcu_read_lock(t)
    \/ \E t \in Readers : rcu_read_lock_store(t)
    \/ \E t \in Readers : rcu_read_unlock(t)
    \/ \E t \in Readers : sigurcu_handler(t)
    \/ \E t \in Writers : synchronize_rcu(t)
    \/ \E t \in Threads : internal_urcu_lock(t)
    \/ \E t \in Threads : internal_urcu_unlock(t)
    \/ \E t \in Readers : urcu_add_reader(t)
    \/ \E t \in Readers : urcu_remove_reader(t)
    \/ \E t \in Writers : force_mb_all_threads(t)
    \/ \E t \in Writers : force_mb_wait(t)
    \/ \E t \in Writers : switch_next_urcu_qparity(t)
    \/ \E t \in Writers : wait_for_quiescent_state(t)
    \/ \E t \in Writers : force_mb_single_thread(t)
    \/ \E t \in Writers : force_mb_single_wait(t)

SpecUrcu == InitUrcu /\ [][NextUrcu]_vars

\* ------------------------------------------------------------------------
\* urcu.c with a reader that never stops: outside any critical section it
\* may begin one more, again and again; the other reader enters one.
\* Every thread inside a call of urcu.c keeps running, every signal sent is
\* handled, and a reader inside a critical section leaves it
\* ------------------------------------------------------------------------
ReaderAgain(t) ==
    /\ t \in Readers
    /\ uth[t].pc = "idle"
    /\ uth[t].life = "registered"
    /\ ~InCS(t)
    /\ uth[t].nread = 0
    /\ uth' = [uth EXCEPT ![t] = [@ EXCEPT !.nread = 1]]
    /\ UNCHANGED <<urcu_gp_ctr, urcu_active_readers, registry, alloc_readers,
                   urcu_mutex, sig_done, sig_pending>>
    /\ UNCHANGED tablevars

InitGrace ==
    /\ TableInit(NoCalls, NoCalls, NoCalls)
    /\ UrcuInit([t \in Threads |-> IF t \in Readers THEN 1 ELSE 0],
                [t \in Threads |-> IF t \in Writers THEN 1 ELSE 0])

\* the steps of thread t inside register, unregister, synchronize_rcu and
\* rcu_read_lock
UrcuInside(t) ==
    \/ internal_urcu_lock(t) \/ internal_urcu_unlock(t)
    \/ urcu_add_reader(t) \/ urcu_remove_reader(t)
    \/ rcu_read_lock_store(t)
    \/ force_mb_all_threads(t) \/ force_mb_wait(t)
    \/ switch_next_urcu_qparity(t) \/ wait_for_quiescent_state(t)
    \/ force_mb_single_thread(t) \/ force_mb_single_wait(t)

NextGrace ==
    \/ NextUrcu
    \/ ReaderAgain("w1")

FairGrace ==
    /\ \A t \in Threads : WF_vars(UrcuInside(t))
    /\ \A t \in Readers : WF_vars(sigurcu_handler(t))
    /\ \A t \in Readers : WF_vars(rcu_read_unlock(t))

SpecGrace == InitGrace /\ [][NextGrace]_vars /\ FairGrace

\* ------------------------------------------------------------------------
\* urcu.c with more threads than the registry first has room for: every
\* thread registers and unregisters once
\* ------------------------------------------------------------------------
RegistryThreads == Threads \cup {"r4", "r5"}

InitRegistry ==
    /\ TableInit(NoCalls, NoCalls, NoCalls)
    /\ wfs = NoTest
    /\ urcu_gp_ctr = RCU_GP_COUNT
    /\ urcu_active_readers = [t \in RegistryThreads |-> 0]
    /\ registry = <<>>
    /\ alloc_readers = 0
    /\ urcu_mutex = "none"
    /\ sig_done = 0
    /\ sig_pending = {}
    /\ uth = [t \in RegistryThreads |-> UthInit]

NextRegistry ==
    \/ \E t \in RegistryThreads : urcu_register_thread(t)
    \/ \E t \in RegistryThreads : urcu_unregister_thread(t)
    \/ \E t \in RegistryThreads : internal_urcu_lock(t)
    \/ \E t \in RegistryThreads : internal_urcu_unlock(t)
    \/ \E t \in RegistryThreads : urcu_add_reader(t)
    \/ \E t \in RegistryThreads : urcu_remove_reader(t)

SpecRegistry == InitRegistry /\ [][NextRegistry]_vars

\* ------------------------------------------------------------------------
\* The stack test run with -p and -P and without -M, with and without -f,
\* with every choice of its thread counts; -w is given to a test of one
\* dequeuer only. The mutex is the one main enforces
\* ------------------------------------------------------------------------
InitWfs ==
    /\ TableInitDestroy(NoCalls, NoCalls, NoCalls, NoCalls)
    /\ UrcuStart(NoCalls, NoCalls)
    /\ \E nd \in 1 .. MaxDequeuers, ne \in 1 .. MaxEnqueuers,
          w, f \in BOOLEAN :
          /\ w => nd = 1
          /\ wfs = WfsArgs(nd, ne, TRUE, TRUE, FALSE, w, f)

NextWfs ==
    \/ MainSetup
    \/ MainGo
    \/ MainStopEnqueue
    \/ MainWaitStopped
    \/ MainWaitEmpty
    \/ MainStopDequeue
    \/ MainJoin
    \/ TestEnd
    \/ MainCheck
    \/ \E t \in EnqIds \cup DeqIds : ThrWaitGo(t)
    \/ \E t \in EnqIds : EnqPush(t)
    \/ \E t \in EnqIds : EnqTest(t)
    \/ \E t \in EnqIds : EnqEnd(t)
    \/ \E t \in DeqIds : DeqChoose(t)
    \/ \E t \in DeqIds : DeqLock(t)
    \/ \E t \in DeqIds : PopLoad(t)
    \/ \E t \in DeqIds : PopNext(t)
    \/ \E t \in DeqIds : PopCas(t)
    \/ \E t \in DeqIds : PopAll(t)
    \/ \E t \in DeqIds : DeqUnlock(t)
    \/ \E t \in DeqIds : PopCount(t)
    \/ \E t \in DeqIds : PopAllFirst(t)
    \/ \E t \in DeqIds : PopAllEach(t)
    \/ \E t \in DeqIds : DeqTest(t)
    \/ \E t \in DeqIds : DeqEnd(t)

SpecWfs == InitWfs /\ [][NextWfs]_vars

\* C1: every pair of adjacent nodes a -> b on the next chain from the order-0
\* dummy has a.reverse_hash <= b.reverse_hash, in every reachable state
C1_SortedChain ==
    \A i \in 1 .. Len(Chain) - 1 : RH(Chain[i]) <= RH(Chain[i + 1])

\* C2: for every index below the published size the dummy node of that index
\* is on the chain from the order-0 dummy, is not flagged REMOVED and has
\* reverse_hash = bit_reverse(index), in every state of a grow and of a shrink
C2_DummiesPublished ==
    \A idx \in 0 .. size - 1 :
        /\ OnChain(D(idx))
        /\ ~is_removed(node_next[D(idx)])
        /\ RH(D(idx)) = bit_reverse_ulong(idx)

\* a shrink lowered the size and is about to remove the dummies of the order,
\* while user nodes are linked
C2_Witness ==
    /\ th[Resizer].caller = "resize"
    /\ th[Resizer].pc = "remove"
    /\ th[Resizer].j = 0
    /\ size = Pow2(th[Resizer].i - 1)
    /\ OnChain(D(size))
    /\ LiveNodes # {}

\* what a thread inside a critical section may dereference next
ReaderRefs(t) ==
    {th[t].lookup, th[t].iter_prev, clear_flag(th[t].iter),
     clear_flag(th[t].next), th[t].node, th[t].old_node,
     clear_flag(th[t].old_next), th[t].it_node, clear_flag(th[t].it_next)}

\* C3: a freed level array holds no dummy that is still linked, no thread
\* inside a read-side critical section holds a reference to a dummy of a freed
\* level array, and no step dereferenced one; also after an early break of the
\* shrink loop
C3_FreedUnreferenced ==
    /\ "use_after_free" \notin faults
    /\ \A o \in 0 .. MaxOrder :
          tbl[o] = "freed" =>
             \A d \in LevelNodes(o) :
                 /\ ~OnChain(d)
                 /\ \A t \in Threads : rcu_nest[t] > 0 => d \notin ReaderRefs(t)

\* the shrink loop broke early with a level to free, and waits for a reader
\* that is inside a call
C3_Witness ==
    \E t \in Resizers :
        /\ th[t].pc = "fini_tail_sync"
        /\ th[t].i >= th[t].first_order
        /\ gp_wait[t] # {}
        /\ th["w1"].op # "none"

LastCall(t) == th[t].hist[Len(th[t].hist)]

\* C4: whenever a thread is outside synchronize_rcu, every read-side critical
\* section that was open when its last synchronize_rcu was called has ended,
\* also when readers entered critical sections during the call
C4_SynchronizeWaits ==
    \A t \in Writers : uth[t].pc = "idle" => uth[t].open = {}

\* a synchronize_rcu returned that was called while a reader was in a critical
\* section, and readers entered critical sections of both parities during it
C4_Witness ==
    \E t \in Writers :
        /\ uth[t].pc = "idle"
        /\ uth[t].nsync < MaxSyncs
        /\ uth[t].waited # {}
        /\ uth[t].entered = {0, 1}

\* C5: a lookup of a key that a linked, non-removed node holds returns such a
\* node, also when a grow or a shrink runs meanwhile and the lookup used a
\* size that is stale
C5_LookupFindsPresent ==
    \A t \in Workers :
        (th[t].pc = "cs" /\ th[t].last = "lookup") =>
            (LiveWithKey(LastCall(t).key) # {} =>
                 LastCall(t).ret \in LiveWithKey(LastCall(t).key))

\* a lookup that used a size smaller than the one a grow has published since
\* found its key
C5_Witness ==
    /\ th["w1"].pc = "cs"
    /\ th["w1"].last = "lookup"
    /\ LastCall("w1").ret # NULL
    /\ LastCall("w1").size < size
    /\ th[Resizer].caller = "resize"

\* the same during a shrink
C5_WitnessShrink ==
    /\ th["w1"].pc = "cs"
    /\ th["w1"].last = "lookup"
    /\ LastCall("w1").ret # NULL
    /\ LastCall("w1").size > size
    /\ th[Resizer].caller = "resize"

\* the calls thread w1 made, in order
SeqHist == th["w1"].hist

AddOps == {"add", "add_unique", "add_replace", "replace"}

\* C6: sequentially, a lookup(k) after add(k) returned, with no successful del
\* of the added node in between, returns a node whose key is k
C6_AddThenLookup ==
    \A i, j \in 1 .. Len(SeqHist) :
        (/\ i < j
         /\ SeqHist[i].op = "add"
         /\ SeqHist[j].op = "lookup"
         /\ SeqHist[j].key = SeqHist[i].key
         /\ ~\E d \in i + 1 .. j - 1 :
                /\ SeqHist[d].op = "del"
                /\ SeqHist[d].node = SeqHist[i].node
                /\ SeqHist[d].res = 0)
        => (SeqHist[j].ret # NULL /\ KeyOf(SeqHist[j].ret) = SeqHist[i].key)

\* a table of two buckets holds a node of another key with the same hash when
\* add(k) and lookup(k) run, and lookup returns the added node
C6_Witness ==
    /\ Len(SeqHist) >= 3
    /\ size = 2
    /\ SeqHist[1].op = "add"
    /\ SeqHist[2].op = "add"
    /\ SeqHist[2].key # SeqHist[1].key
    /\ hash_fct(SeqHist[2].key) = hash_fct(SeqHist[1].key)
    /\ SeqHist[3].op = "lookup"
    /\ SeqHist[3].key = SeqHist[2].key
    /\ SeqHist[3].ret = SeqHist[2].node

\* C7: add_unique on a table that holds a non-removed node of an equal key
\* returns that node, links nothing and leaves the number of live user nodes
\* and the item counters as they were; on a table without the key it links
\* the node and returns it; two successive add_unique of one key grow the
\* population by exactly 1
C7_AddUnique ==
    /\ \A i \in 1 .. Len(SeqHist) :
          SeqHist[i].op = "add_unique" =>
             IF SeqHist[i].pre.with # {}
             THEN SeqHist[i].ret \in SeqHist[i].pre.with
             ELSE SeqHist[i].ret = SeqHist[i].node
    /\ (th["w1"].pc = "cs" /\ th["w1"].last = "add_unique") =>
          IF LastCall("w1").pre.with # {}
          THEN /\ ~OnChain(LastCall("w1").node)
               /\ Cardinality(LiveNodes) = LastCall("w1").pre.live
               /\ count = LastCall("w1").pre.count
               /\ percpu_count = LastCall("w1").pre.percpu
          ELSE /\ LastCall("w1").node \in LiveNodes
               /\ Cardinality(LiveNodes) = LastCall("w1").pre.live + 1
    /\ \A i \in 1 .. Len(SeqHist) - 1 :
          (/\ SeqHist[i].op = "add_unique"
           /\ SeqHist[i + 1].op = "add_unique"
           /\ SeqHist[i + 1].key = SeqHist[i].key
           /\ SeqHist[i].pre.with = {})
          => (/\ SeqHist[i + 1].ret = SeqHist[i].node
              /\ SeqHist[i + 1].pre.live = SeqHist[i].pre.live + 1
              /\ (i + 1 = Len(SeqHist) /\ th["w1"].pc = "cs")
                    => Cardinality(LiveNodes) = SeqHist[i].pre.live + 1)

\* two successive add_unique of one key returned, the second one on a table
\* whose counters had counted the first
C7_Witness ==
    /\ th["w1"].pc = "cs"
    /\ Len(SeqHist) = 2
    /\ SeqHist[1].op = "add_unique"
    /\ SeqHist[2].op = "add_unique"
    /\ SeqHist[2].key = SeqHist[1].key
    /\ SeqHist[2].ret = SeqHist[1].node
    /\ percpu_count # NoCounters
    /\ \E c \in Cpus : percpu_count[c].add = 1

\* C8: when keys are inserted through add_unique and add_replace only, no two
\* linked, non-removed user nodes have equal keys, whatever the interleaving
\* of add_unique, add_replace, del and resize; of two add_unique calls that
\* both began while their key was absent, no node of that key having been
\* removed since, exactly one returns its own node
C8_UniqueKeys ==
    /\ \A n1, n2 \in LiveNodes : node_key[n1] = node_key[n2] => n1 = n2
    /\ \A i \in 1 .. Len(th["w1"].hist), j \in 1 .. Len(th["w2"].hist) :
          LET a == th["w1"].hist[i]
              b == th["w2"].hist[j]
          IN  (/\ a.op = "add_unique"
               /\ b.op = "add_unique"
               /\ a.key = b.key
               /\ a.pre.with = {}
               /\ b.pre.with = {}
               /\ \A n \in UserNodes : node_key[n] = a.key => ~node_next[n].rm)
              => ((a.ret = a.node) # (b.ret = b.node))

\* two add_unique calls of one key that was absent when each began returned;
\* a resize ran between their reads of the size
C8_Witness ==
    /\ Len(th["w1"].hist) >= 1
    /\ Len(th["w2"].hist) >= 1
    /\ th["w1"].hist[1].op = "add_unique"
    /\ th["w2"].hist[1].op = "add_unique"
    /\ th["w1"].hist[1].key = th["w2"].hist[1].key
    /\ th["w1"].hist[1].pre.with = {}
    /\ th["w2"].hist[1].pre.with = {}
    /\ th["w1"].hist[1].size # th["w2"].hist[1].size

\* C9: sequentially, after add(k), a lookup(k) that found the added node and
\* a del of it that returned 0, a following lookup(k) returns nil when no
\* other node of key k was added
C9_DelThenLookup ==
    \A a, b, c, d \in 1 .. Len(SeqHist) :
        (/\ a < b /\ b < c /\ c < d
         /\ SeqHist[a].op = "add"
         /\ SeqHist[a].pre.with = {}
         /\ SeqHist[b].op = "lookup"
         /\ SeqHist[b].key = SeqHist[a].key
         /\ SeqHist[b].ret = SeqHist[a].node
         /\ SeqHist[c].op = "del"
         /\ SeqHist[c].node = SeqHist[a].node
         /\ SeqHist[c].res = 0
         /\ SeqHist[d].op = "lookup"
         /\ SeqHist[d].key = SeqHist[a].key
         /\ \A e \in 1 .. d :
               (e # a /\ SeqHist[e].op \in AddOps)
                  => SeqHist[e].key # SeqHist[a].key)
        => SeqHist[d].ret = NULL

\* add, lookup, del returning 0 and a second lookup of the key ran, on a table
\* of more than one bucket
C9_Witness ==
    /\ Len(SeqHist) = 4
    /\ size > 1
    /\ SeqHist[1].op = "add"
    /\ SeqHist[2].op = "lookup"
    /\ SeqHist[2].ret = SeqHist[1].node
    /\ SeqHist[3].op = "del"
    /\ SeqHist[3].res = 0
    /\ SeqHist[4].op = "lookup"
    /\ SeqHist[4].key = SeqHist[1].key
    /\ SeqHist[4].ret = NULL

\* C10: sequentially, add_replace(n1) of an absent key returns nil and links
\* n1; a following add_replace(n2) of the same key returns n1; afterwards
\* lookup of the key returns n2, and no lookup and no traversal returns n1
C10_AddReplace ==
    /\ \A a \in 1 .. Len(SeqHist) :
          (SeqHist[a].op = "add_replace" /\ SeqHist[a].pre.with = {})
          => (/\ SeqHist[a].ret = NULL
              /\ (a = Len(SeqHist) /\ th["w1"].pc = "cs")
                    => SeqHist[a].node \in LiveNodes)
    /\ \A a \in 1 .. Len(SeqHist) - 1 :
          (/\ SeqHist[a].op = "add_replace"
           /\ SeqHist[a].pre.with = {}
           /\ SeqHist[a + 1].op = "add_replace"
           /\ SeqHist[a + 1].key = SeqHist[a].key)
          => (/\ SeqHist[a + 1].ret = SeqHist[a].node
              /\ SeqHist[a].node \notin LiveNodes
              /\ \A c \in a + 2 .. Len(SeqHist) :
                    /\ SeqHist[c].op \in {"lookup", "first", "next"}
                          => SeqHist[c].ret # SeqHist[a].node
                    /\ (c = a + 2 /\ SeqHist[c].op = "lookup"
                          /\ SeqHist[c].key = SeqHist[a].key)
                          => SeqHist[c].ret = SeqHist[a + 1].node)

\* two add_replace of one key, then a lookup that returned the second node and
\* a traversal from the first node of the table
C10_Witness ==
    /\ Len(SeqHist) = 4
    /\ SeqHist[1].op = "add_replace"
    /\ SeqHist[2].op = "add_replace"
    /\ SeqHist[2].ret = SeqHist[1].node
    /\ SeqHist[3].op = "lookup"
    /\ SeqHist[3].ret = SeqHist[2].node
    /\ SeqHist[4].op = "first"
    /\ SeqHist[4].ret = SeqHist[2].node

\* ------------------------------------------------------------------------
\* Replacement and removal under concurrency
\* ------------------------------------------------------------------------
\* the record of calls of t goes back to the first call it made
NoSectionLeft(t) ==
    \/ th[t].nsect = MaxSections
    \/ th[t].nsect = MaxSections - 1 /\ th[t].pc # "idle"

\* no thread has called del
NoDelCalled ==
    \A t \in Workers :
       /\ NoSectionLeft(t)
       /\ th[t].op # "del"
       /\ \A m \in 1 .. Len(th[t].hist) : th[t].hist[m].op # "del"

\* C11: while replace or add_replace puts a new node in the place of an old
\* node of the same key, the old and the new node are never both linked and
\* non-removed, and, no del having been called, a lookup of the key that
\* began while a node of the key was linked does not return nil
C11_ReplaceAtomic ==
    /\ \A t \in Workers :
          (th[t].op \in {"replace", "add_replace"} /\ th[t].old_node # NULL)
          => ~(th[t].old_node \in LiveNodes /\ th[t].node \in LiveNodes)
    /\ NoDelCalled =>
          \A t \in Workers : \A m \in 1 .. Len(th[t].hist) :
             (th[t].hist[m].op = "lookup" /\ th[t].hist[m].pre.with # {})
             => th[t].hist[m].ret # NULL

\* the calls of del and replace on node n that returned res, over all threads
Attempts(n, res) ==
    {<<t, m>> \in Workers \X (1 .. MaxOpsReplace + MaxOps) :
        /\ m <= Len(th[t].hist)
        /\ th[t].hist[m].res = res
        /\ \/ th[t].hist[m].op = "del" /\ th[t].hist[m].node = n
           \/ th[t].hist[m].op = "replace" /\ th[t].hist[m].old = n}

\* the threads whose del or replace has flagged n and has not returned yet
Flagging(n) ==
    {t \in Workers :
        /\ th[t].pc \in {"gc_head", "gc_next", "gc_cas"}
        /\ \/ th[t].op = "del" /\ th[t].node = n
           \/ th[t].op = "replace" /\ th[t].old_node = n}

\* C12: of the del and replace calls that target one node, at most one
\* flags it and returns 0, and a call returns -ENOENT only when another
\* call has flagged the node
C12_OneWinner ==
    \A n \in UserNodes :
       /\ Cardinality(Attempts(n, 0)) + Cardinality(Flagging(n)) <= 1
       /\ ((\A t \in Workers : NoSectionLeft(t)) /\ Attempts(n, -ENOENT) # {})
             => Cardinality(Attempts(n, 0)) + Cardinality(Flagging(n)) = 1

\* a replace and a del of one node, both begun while the node was linked and
\* not removed, have returned, one of them 0 and the other -ENOENT
C12_Witness ==
    \E n \in UserNodes, a \in 1 .. Len(th["w1"].hist), b \in 1 .. Len(th["w2"].hist) :
       /\ th["w1"].hist[a].op = "replace"
       /\ th["w1"].hist[a].old = n
       /\ th["w2"].hist[b].op = "del"
       /\ th["w2"].hist[b].node = n
       /\ n \in th["w1"].hist[a].pre.with
       /\ n \in th["w2"].hist[b].pre.with
       /\ {th["w1"].hist[a].res, th["w2"].hist[b].res} = {0, -ENOENT}

\* C13: once del or replace has returned 0, the node it flagged is not on the
\* chain of next pointers that starts at the order-0 dummy, in that state and
\* in every later state of the read-side critical section of the caller
C13_Unlinked ==
    \A t \in Workers : \A m \in 1 .. Len(th[t].hist) :
       LET e == th[t].hist[m]
       IN  /\ (e.op = "del" /\ e.res = 0) => ~OnChain(e.node)
           /\ (e.op = "replace" /\ e.res = 0) => ~OnChain(e.old)

\* C14 as stated: a replace whose target got another successor between the
\* lookup that filled the iterator and the call returns -ENOENT and links
\* nothing
C14_FailsOnChange ==
    \A t \in Workers : \A m \in 1 .. Len(th[t].hist) :
       LET e == th[t].hist[m]
       IN  (e.op = "replace" /\ e.pre.changed)
           => (e.res = -ENOENT /\ ~OnChain(e.node))

\* C14: a replace returns -ENOENT, its new node linked nowhere, only when the
\* iterator holds no node or the target is flagged REMOVED by another call;
\* a replace that returned 0 left the target flagged and pointing to the new
\* node, also when the target had got another successor before the call
C14_FailsWhenRemoved ==
    \A t \in Workers : \A m \in 1 .. Len(th[t].hist) :
       LET e == th[t].hist[m]
       IN  e.op = "replace" =>
              /\ e.res \in {0, -ENOENT}
              /\ e.res = -ENOENT =>
                    /\ ~OnChain(e.node)
                    /\ \A n \in AllNodes : clear_flag(node_next[n]) # e.node
                    /\ \/ e.old = NULL
                       \/ /\ is_removed(node_next[e.old])
                          /\ clear_flag(node_next[e.old]) # e.node
              /\ e.res = 0 => node_next[e.old] = flag_removed(Ptr(e.node))

\* a replace returned 0 although its target, not removed, had got another
\* successor since the lookup that filled the iterator
C14_Witness ==
    \E t \in Workers : \E m \in 1 .. Len(th[t].hist) :
       /\ th[t].hist[m].op = "replace"
       /\ th[t].hist[m].pre.changed
       /\ ~th[t].hist[m].pre.removed
       /\ th[t].hist[m].res = 0

\* ------------------------------------------------------------------------
\* Failed removal, node counts
\* ------------------------------------------------------------------------
\* the call of t returns in this step
Returns(t) == Len(th'[t].hist) = Len(th[t].hist) + 1

\* C15: a del whose iterator holds no node returns -ENOENT in the step of the
\* call, and a del whose node was already flagged REMOVED at the call returns
\* -ENOENT in its first step after it, without a compare-and-swap, a bucket
\* walk or a counter step; no step of either changes a next pointer, a
\* per-CPU counter or the global count
C15_DelNotFound ==
    [][\A t \in Workers :
          /\ th[t].op = "del" => th[t].node # NULL
          /\ \A m \in 1 .. Len(th[t].hist) :
                (th[t].hist[m].op = "del" /\ th[t].hist[m].node = NULL)
                => th[t].hist[m].res = -ENOENT
          /\ (th[t].op = "none" /\ Returns(t) /\ LastCall(t)'.op = "del")
                => /\ LastCall(t)'.node = NULL
                   /\ LastCall(t)'.res = -ENOENT
                   /\ UNCHANGED <<heap, cvars>>
          /\ (th[t].op = "del" /\ th[t].pre.removed /\ th'[t] # th[t])
                => /\ Returns(t)
                   /\ LastCall(t)'.res = -ENOENT
                   /\ UNCHANGED <<heap, cvars>>
          /\ (th[t].op = "none" /\ th'[t].op = "del")
                => UNCHANGED <<heap, cvars>>]_vars

\* in a table that counts its nodes, a del of a node that an earlier del had
\* removed returned -ENOENT
C15_Witness ==
    /\ percpu_count # NoCounters
    /\ \E m \in 1 .. Len(SeqHist) :
          /\ SeqHist[m].op = "del"
          /\ SeqHist[m].pre.removed
          /\ SeqHist[m].res = -ENOENT
    /\ \E m \in 1 .. Len(SeqHist) :
          /\ SeqHist[m].op = "del"
          /\ SeqHist[m].res = 0

\* what a returned call added to the number of nodes of the table
Gain(e) ==
    CASE e.op = "add" -> 1
      [] e.op = "add_unique" /\ e.ret = e.node -> 1
      [] e.op = "add_replace" /\ e.ret = NULL -> 1
      [] e.op = "del" /\ e.res = 0 -> -1
      [] OTHER -> 0

\* successful insertions minus successful dels, over the calls that returned
Net ==
    Sum([t \in Threads |->
            Sum([m \in 1 .. Len(th[t].hist) |-> Gain(th[t].hist[m])],
                1 .. Len(th[t].hist))], Workers)

\* the last call of t was count_nodes, and from its beginning on no other
\* thread was inside a call or began one
CountedQuiet(t) ==
    /\ th[t].pc = "cs"
    /\ Len(th[t].hist) > 0
    /\ LastCall(t).op = "count_nodes"
    /\ LastCall(t).pre.quiet
    /\ LastCall(t).pre.calls = OtherCalls(t)
    /\ OthersQuiet(t)
    /\ \A u \in Workers : NoSectionLeft(u)

NoAddDel == \A t \in Workers : th[t].op \notin {"add", "add_unique", "add_replace", "del"}

Abs(x) == IF x < 0 THEN -x ELSE x

C18_NewChecksSize ==
    LET s == th[Resizer].init_size
    IN  /\ ht = "invalid" =>
              /\ ~IsPow2(s)
              /\ size = 0
              /\ \A o \in 0 .. MaxOrder : tbl[o] = "null"
              /\ percpu_count = NoCounters
              /\ resize_mutex = "none"
        /\ ht \in {"new", "live"} => IsPow2(s)
        /\ (/\ ht = "live"
            /\ th[Resizer].pc = "idle"
            /\ th[Resizer].new_size = -1
            /\ FreeNodes = UserNodes)
              => /\ size = s
                 /\ Len(Chain) = s
                 /\ {Chain[i] : i \in 1 .. Len(Chain)} = {D(i) : i \in 0 .. s - 1}
                 /\ \A i \in 1 .. Len(Chain) :
                       /\ is_dummy(node_next[Chain[i]])
                       /\ ~is_removed(node_next[Chain[i]])

\* the smallest power of two that is >= x
RoundUp(x) == Pow2(get_count_order_ulong(x))

\* the size resize(new_size) is to publish
Rounded(new_size) == RoundUp(max(new_size, MIN_TABLE_SIZE))

C20_ResizeReturns ==
    (th[Resizer].caller = "resize") ~> (th[Resizer].caller = "none")

\* some user node is linked in the list, flagged REMOVED or not
UserLinked == \E n \in UserNodes : OnChain(n)

\* the orders of the level arrays of a table of size sz
OrdersOf(sz) == 0 .. get_count_order_ulong(sz)

\* C21: destroy returns NOT_EMPTY (-EPERM) exactly when a user node is still
\* linked in the list; while a user node is linked no step of destroy frees a
\* level array or the handle or changes the list or the size; and when
\* destroy returns 0 the handle and every level array of the orders 0 up to
\* the order of the size are freed
C21_DestroyNotEmpty ==
    [][\A t \in Threads :
          (th[t].caller = "destroy" /\ th'[t] # th[t]) =>
              /\ th'[t].caller = "none" =>
                     /\ th'[t].res \in {0, -EPERM}
                     /\ (th'[t].res = -EPERM) <=> UserLinked
                     /\ th'[t].res = 0 =>
                            /\ ht' = "destroyed"
                            /\ \A o \in OrdersOf(size) : tbl'[o] = "freed"
              /\ UserLinked =>
                     /\ tbl' = tbl
                     /\ ht' # "destroyed"
                     /\ heap' = heap
                     /\ size' = size]_vars

\* destroy has returned NOT_EMPTY on a table of two level arrays, which it left
\* allocated, and the handle is valid
C21_Witness ==
    /\ th[Resizer].last = "destroy"
    /\ th[Resizer].res = -EPERM
    /\ UserLinked
    /\ ht = "live"
    /\ size = 2
    /\ tbl[0] = "alloc" /\ tbl[1] = "alloc"
    /\ in_progress_destroy = 1

\* destroy is inspecting the list or freeing the table
Inspecting(t) == th[t].pc \in {"dd_walk", "dd_free", "destroy_free"}

WalkCalls == {i \in 1 .. Len(th["w1"].hist) :
                 th["w1"].hist[i].op \in {"first", "next"}}

WalkGot == {i \in WalkCalls : th["w1"].hist[i].ret # NULL}

\* the traversal began with first and no next pointer of the table was
\* written since
WalkUndisturbed ==
    /\ Len(th["w1"].hist) > 0
    /\ th["w1"].hist[1].op = "first"
    /\ th["w1"].hist[1].pre.links = node_next

WalkEnded == \E i \in WalkCalls : th["w1"].hist[i].ret = NULL

\* C23: with no next pointer written since first was called, first and next
\* return only user nodes that are linked and not flagged REMOVED, no node
\* twice, and once next returned no node they have returned every such node;
\* a count_nodes that follows counts as many nodes as the traversal returned
C23_FullTraversal ==
    LET h == th["w1"].hist
    IN  WalkUndisturbed =>
          /\ \A i \in WalkGot :
                 /\ h[i].ret \in UserNodes
                 /\ ~is_removed(node_next[h[i].ret])
                 /\ h[i].ret \in h[1].pre.nodes
          /\ \A i, j \in WalkGot : i # j => h[i].ret # h[j].ret
          /\ WalkEnded => {h[i].ret : i \in WalkGot} = h[1].pre.nodes
          /\ (/\ WalkEnded
              /\ th["w1"].op = "none"
              /\ LastCall("w1").op = "count_nodes")
             => th["w1"].count = Cardinality(WalkGot)

\* a traversal of a table of two buckets or more came to its end and was
\* counted while a node flagged REMOVED was still linked, and returned a node
C23_Witness ==
    /\ WalkUndisturbed
    /\ WalkEnded
    /\ WalkGot # {}
    /\ th["w1"].op = "none"
    /\ LastCall("w1").op = "count_nodes"
    /\ size >= 2
    /\ \E n \in UserNodes : OnChain(n) /\ is_removed(node_next[n])

\* C24: a thread that is scheduled again and again returns from every lookup,
\* add, add_unique, add_replace and del it calls, whatever the other thread
\* does and wherever the other thread stops
C24_EveryCallReturns ==
    (th["w1"].op # "none") ~> (th["w1"].op = "none")

\* the other thread flagged a node REMOVED and has not taken a step since,
\* and an add of the thread returned after it unlinked that node
C24_Witness ==
    /\ th["w2"].op = "del"
    /\ th["w2"].pc = "gc_head"
    /\ th["w2"].iter_prev = NULL
    /\ is_removed(node_next[th["w2"].node])
    /\ ~OnChain(th["w2"].node)
    /\ th["w1"].op = "none"
    /\ Len(th["w1"].hist) > 0
    /\ LastCall("w1").op \in {"add", "add_unique", "add_replace"}

\* no node is freed twice, and once main has made its checks every node
\* pushed was freed and the successful enqueues are as many as the successful
\* dequeues plus the nodes test_end took
WfsBalanced ==
    /\ ~wfs.double_free
    /\ wfs.pc = "done" =>
          /\ wfs.tot_successful_enqueues
                = wfs.tot_successful_dequeues + wfs.end_dequeues
          /\ wfs.alloc = {}

AtAnchor(t) ==
    /\ th[t].pc \in {"add_head", "gc_head", "lk_head"}
    /\ th[t].lookup # NULL

RemovedAsserts == {"add_iter_removed", "add_gc_iter_removed", "gc_iter_removed"}

\* C26: while the table shrinks, no thread starts or restarts a walk from a
\* bucket dummy whose next pointer is flagged REMOVED, and the assertions
\* that the node in front of an insert or an unlink is not removed never fail
C26_AnchorsNotRemoved ==
    /\ faults \cap RemovedAsserts = {}
    /\ \A t \in Threads :
          AtAnchor(t) => ~is_removed(node_next[th[t].lookup])

\* a shrink has flagged a dummy REMOVED while a thread that called add, del or
\* lookup inside a critical section is about to read its bucket dummy
C26_Witness ==
    /\ \E d \in DummyNodes : is_removed(node_next[d])
    /\ AtAnchor("w1")
    /\ th["w1"].op \in {"add", "add_unique", "add_replace", "del", "lookup"}

\* the thread is inside _do_cds_lfht_resize, init_table or fini_table
LoopPcs ==
    {"rs_loop", "rs_set_initiated", "rs_read", "rs_clear_initiated", "rs_test",
     "init_check", "populate", "init_store_size", "init_check_destroy",
     "fini_check", "fini_store_size", "fini_sync", "remove",
     "fini_check_destroy", "fini_tail", "fini_tail_sync"}

InResizeLoop(t) ==
    th[t].pc \in LoopPcs \/ th[t].op \in {"populate", "remove"}

\* a step writes ht->t.size or a slot of ht->t.tbl
WritesTable == size' # size \/ tbl' # tbl

\* the step is one of the thread that holds the resize mutex
StepOfHolder ==
    /\ resize_mutex \in Threads
    /\ resize_mutex' = resize_mutex
    /\ th'[resize_mutex] # th[resize_mutex]
    /\ \A u \in Threads \ {resize_mutex} : th'[u] = th[u]

\* C27: only the thread that holds the resize mutex is inside the grow/shrink
\* loop, and every step that writes the published size or a slot of the
\* level-array vector is a step of that thread, with direct resizes, lazy
\* resize callbacks and the creation of the table
C27_WritesUnderMutex ==
    /\ [](\A t \in Threads : InResizeLoop(t) => resize_mutex = t)
    /\ [][WritesTable => StepOfHolder]_vars

\* a lazy resize callback is inside the loop and holds the mutex while
\* a direct resize waits for the mutex
C27_Witness ==
    /\ th[CallRcuThread].caller = "cb"
    /\ InResizeLoop(CallRcuThread)
    /\ size > 1
    /\ th["w2"].pc = "resize_lock"

\* the thread is inside init_table_populate or remove_table, between the
\* calls of thread_online and thread_offline
InPartition(t) ==
    th[t].pc \in {"populate", "remove"} \/ th[t].op \in {"populate", "remove"}

\* the statement as it stands: a thread that holds the resize mutex is
\* declared offline for the whole time it holds it
C28_Original ==
    \A t \in Threads : resize_mutex = t => rcu_offline[t]

\* C28: a thread is declared offline while it blocks to acquire the resize
\* mutex, at every synchronize_rcu of the shrink path, and while it holds the
\* mutex outside init_table_populate and remove_table; inside these two it is
\* online, in a read-side critical section
C28_OfflineOutsidePartition ==
    \A t \in Threads :
       /\ th[t].pc \in {"resize_lock", "cb_lock"} => rcu_offline[t]
       /\ th[t].pc \in {"fini_sync", "fini_tail_sync"} => rcu_offline[t]
       /\ resize_mutex = t /\ ~InPartition(t) => rcu_offline[t]
       /\ resize_mutex = t /\ InPartition(t) =>
             ~rcu_offline[t] /\ rcu_nest[t] = 1

\* a direct resize populates dummies, online and holding the mutex, while the
\* lazy resize callback blocks on the mutex, offline
C28_Witness ==
    /\ resize_mutex = "w2"
    /\ th["w2"].op = "populate"
    /\ ~rcu_offline["w2"]
    /\ th[CallRcuThread].pc = "cb_lock"
    /\ rcu_offline[CallRcuThread]

\* C29: every execution of the resize loop runs while in_progress_resize is
\* greater than zero: the assertion at the top of the loop never fails,
\* whether the loop was entered from the lazy resize callback or from
\* cds_lfht_resize
C29_LoopInProgress ==
    "resize_not_in_progress" \notin faults

\* no trigger is in flight, every queued callback has run, no resize is
\* scheduled or running, and destroy has not started
LazyQuiet ==
    /\ ht = "live"
    /\ in_progress_destroy = 0
    /\ cb_queue = <<>>
    /\ resize_mutex = "none"
    /\ \A t \in Threads : th[t].pc = "idle"

\* C30: no lazy resize request is lost: once no trigger is in flight and
\* every queued callback has run, and destroy has not started, size equals
\* resize_target
C30_NoLostResize ==
    LazyQuiet => size = resize_target

\* a trigger finds resize_target at the value it asks for and
\* resize_initiated set, so that it enqueues nothing, while a thread runs the
\* resize loop for a target it read before and that was smaller
C30_Witness ==
    /\ th["w1"].pc = "lazy_read_initiated"
    /\ resize_initiated = 1
    /\ th["w1"].size < th["w1"].target_size
    /\ resize_target = LazyTarget(th["w1"])
    /\ \E t \in {"w2", CallRcuThread} :
          /\ resize_mutex = t
          /\ \/ th[t].pc \in {"init_check", "populate", "init_store_size"}
             \/ th[t].op = "populate"
          /\ Pow2(th[t].end_order - 1) < resize_target

\* the table has settled at the size the triggers asked for
LazySettled ==
    /\ LazyQuiet
    /\ faults = {}
    /\ size = Pow2(MaxOrder)
    /\ th["w1"].nops = 0

\* the lazy resize callbacks that are queued or running
CallbacksPending ==
    Len(cb_queue) + Cardinality({t \in Threads : th[t].caller = "cb"})

\* the triggers that have counted a callback and not enqueued it yet
TriggersCounted ==
    Cardinality({t \in Threads :
                    th[t].pc \in {"lazy_check_destroy", "lazy_call_rcu",
                                  "lazy_dec"}})

\* the statement as it stands: at most one lazy resize callback is queued or
\* running at any time
C31_Original ==
    CallbacksPending <= 1

\* C31: a trigger enqueues a callback only after it has read
\* resize_initiated as 0 and has incremented in_progress_resize; triggers
\* that read the flag before one of them sets it each enqueue a callback, and
\* in_progress_resize counts every callback queued or running and every
\* trigger about to enqueue
C31_CallbacksCounted ==
    /\ in_progress_resize = CallbacksPending + TriggersCounted
    /\ \A t \in Threads :
          th[t].pc = "lazy_set_initiated" => CallbacksPending >= 1

\* two folds have each enqueued a callback
C31_Witness ==
    /\ Len(cb_queue) = 2
    /\ in_progress_resize = 2
    /\ resize_initiated = 1

\* thread t takes a step of a grow trigger: of cds_lfht_resize_lazy called by
\* check_resize, or of cds_lfht_resize_lazy_count called by ht_count_add
GrowTriggerStep(t) ==
    /\ th[t].op \in {"add", "add_unique", "add_replace"}
    /\ th[t].pc \in {"lazy_read_target", "lazy_cas_target", "resize_lazy_count"}
    /\ th'[t] # th[t]

\* C32: during a burst of grow triggers resize_target is a monotone maximum:
\* no step of a chain-length or count-based grow trigger stores a
\* resize_target smaller than the value it replaces
C32_MonotoneMax ==
    [][(\E t \in Threads : GrowTriggerStep(t))
          => resize_target' >= resize_target]_vars

\* C33: in every reachable state a linked dummy with reverse-hash r precedes
\* in the list every user node with reverse-hash r
C33_DummyFirst ==
    \A i, j \in 1 .. Len(Chain) :
        (/\ IsDummyNode(Chain[i])
         /\ IsUserNode(Chain[j])
         /\ RH(Chain[i]) = RH(Chain[j])) => i < j

\* a step links the user node n: every node before it on the chain has a
\* reverse-hash that is not greater, the node after it a greater one
InsertedInPlace(n) ==
    LET c == Chain'
        p == CHOOSE i \in 1 .. Len(c) : c[i] = n
        h == node_reverse_hash'
    IN  /\ \A i \in 1 .. p - 1 : h[c[i]] <= h[n]
        /\ p < Len(c) => h[c[p + 1]] > h[n]

\* a new user node is inserted after every node with a reverse-hash that is
\* not greater than its own and before the first node with a greater one
InsertPlaceKept ==
    [][\A n \in UserNodes : ~OnChain(n) /\ OnChain(n)' => InsertedInPlace(n)]_vars

\* the statement as it stands: the DUMMY bit of the next pointer of the
\* predecessor of a linked node n is set if and only if n is a dummy
C34_Original ==
    \A i \in 1 .. Len(Chain) - 1 :
        is_dummy(node_next[Chain[i]]) <=> IsDummyNode(Chain[i + 1])

\* C34: the DUMMY flag marks a dummy in the dummy's own next pointer: for
\* every linked node n, the DUMMY bit of n's next pointer is set if and only
\* if n is a dummy, and insert, GC and replace splices, which keep the flag of
\* the pointer they overwrite, preserve this in every reachable state of a
\* table that has published a size
C34_OwnFlag ==
    size > 0 =>
        \A i \in 1 .. Len(Chain) :
            is_dummy(node_next[Chain[i]]) <=> IsDummyNode(Chain[i])

\* after a replace, a user node follows a dummy and a dummy follows a user
\* node on the chain
C34_Witness ==
    /\ \E m \in 1 .. Len(th["w1"].hist) :
          th["w1"].hist[m].op = "replace" /\ th["w1"].hist[m].res = 0
    /\ \E i \in 1 .. Len(Chain) - 2 :
          /\ IsDummyNode(Chain[i])
          /\ IsUserNode(Chain[i + 1])
          /\ IsDummyNode(Chain[i + 2])

\* thread t folds its cell into the global count in this step
AddFolds(t) == th[t].pc = "count_add_fold" /\ th'[t] # th[t]

DelFolds(t) == th[t].pc = "count_del_fold" /\ th'[t] # th[t]

\* the fold of t ends in a call of cds_lfht_resize_lazy_count with the target
\* count / 2^(CHAIN_LEN_TARGET - 1)
FoldSchedules(t) ==
    /\ th'[t].pc = "resize_lazy_count"
    /\ th'[t].target_size = count' \div Pow2(CHAIN_LEN_TARGET - 1)

\* the floor below which a del-fold asks for nothing
CountFloor == Pow2(COUNT_COMMIT_ORDER) * Cardinality(Cells)

GrowDue(t) ==
    IsPow2(count') /\ count' \div Pow2(CHAIN_LEN_RESIZE_THRESHOLD) >= th[t].size

CeilLog2(x) == CHOOSE k \in 0 .. HashBits + MaxOrder + 1 :
                   /\ x <= Pow2(k)
                   /\ k = 0 \/ Pow2(k - 1) < x

\* the position of node n on the chain c, 0 when it is not there
ChainPos(c, n) == IF \E i \in 1 .. Len(c) : c[i] = n
                  THEN CHOOSE i \in 1 .. Len(c) : c[i] = n ELSE 0

\* thread t's add walk moves past a node in this step
WalkAdvances(t) ==
    /\ th[t].pc = "add_next"
    /\ th[t].op \in {"add", "add_unique", "add_replace"}
    /\ th'[t].iter_prev # th[t].iter_prev

\* the user nodes the walk of thread t has passed after this step, from the
\* bucket anchor (excluded) to the node just passed (included)
PassedUsers(t) ==
    LET c == Chain'
        r == th'[t]
    IN  {c[i] : i \in {j \in 1 .. Len(c) :
                          /\ IsUserNode(c[j])
                          /\ ChainPos(c, r.lookup) < j
                          /\ j <= ChainPos(c, r.iter_prev)}}

DistinctPassed(t) ==
    LET h == node_reverse_hash'
    IN  Cardinality({h[n] : n \in PassedUsers(t)})

\* the node just passed is a user node whose reverse hash no user node passed
\* before it has
PassesNewHash(t) ==
    LET h == node_reverse_hash'
        n == th'[t].iter_prev
    IN  /\ n \in PassedUsers(t)
        /\ \A m \in PassedUsers(t) \ {n} : h[m] # h[n]

\* the size the walk asks for after passing len user nodes
ChainGrowTarget(t, len) ==
    th[t].size * Pow2(CeilLog2(len - (CHAIN_LEN_TARGET - 1)))

ChainHeuristicOn ==
    "AUTO_RESIZE" \in flags /\ count < Pow2(COUNT_COMMIT_ORDER)

\* passing the third or a later user node with a new reverse hash requests a
\* grow, in a table that can hold the requested size
ChainRequests(t) ==
    (/\ WalkAdvances(t)
     /\ ChainHeuristicOn
     /\ PassesNewHash(t)
     /\ DistinctPassed(t) >= CHAIN_LEN_RESIZE_THRESHOLD
     /\ ChainGrowTarget(t, DistinctPassed(t)) <= Pow2(MaxOrder))
        => th'[t].pc = "lazy_read_target"

\* the request leaves resize_target at or above the size shifted left by
\* ceil_log2(chain_len - (CHAIN_LEN_TARGET - 1))
ChainRaises(t) ==
    (/\ th[t].pc \in {"lazy_read_target", "lazy_cas_target"}
     /\ th'[t].pc = "lazy_read_initiated")
        => resize_target' >= ChainGrowTarget(t, th[t].chain_len)

\* with the heuristic off no step of an add changes resize_target
ChainQuiet(t) ==
    (/\ ~ChainHeuristicOn
     /\ th[t].op \in {"add", "add_unique", "add_replace"}
     /\ th'[t] # th[t])
        => resize_target' = resize_target

ChainLenRequests == [][\A t \in Workers : ChainRequests(t)]_vars

ChainLenRaises == [][\A t \in Workers : ChainRaises(t)]_vars

ChainLenQuiet == [][\A t \in Workers : ChainQuiet(t)]_vars

\* chain_len counts the user nodes whose reverse hash differs from that of the
\* node before them in the walk: it misses at most the user nodes that share
\* the reverse hash of the bucket's dummy
ChainLenCounted ==
    [][\A t \in Workers :
          WalkAdvances(t) =>
              /\ th'[t].chain_len <= DistinctPassed(t)
              /\ th'[t].chain_len >= DistinctPassed(t) - 1
              /\ (th'[t].chain_len # th[t].chain_len
                    /\ ChainHeuristicOn
                    /\ th'[t].chain_len >= CHAIN_LEN_RESIZE_THRESHOLD
                    /\ ChainGrowTarget(t, th'[t].chain_len) <= Pow2(MaxOrder))
                 => th'[t].pc = "lazy_read_target"]_vars

NewReturned == ht = "live" /\ th[Resizer].op # "new"

\* C37: once new has returned, the published size is a power of two and at
\* least MIN_TABLE_SIZE, the list starts at the order-0 dummy, whose level is
\* allocated and which no node points to, that dummy is flagged as a dummy and
\* never as REMOVED, and the chain from it ends at END without a cycle
C37_TableShape ==
    NewReturned =>
        /\ IsPow2(size)
        /\ size >= MIN_TABLE_SIZE
        /\ tbl[0] = "alloc"
        /\ lookup_bucket(size, 0) = D(0)
        /\ RH(D(0)) = 0
        /\ is_dummy(node_next[D(0)])
        /\ ~is_removed(node_next[D(0)])
        /\ \A n \in AllNodes : clear_flag(node_next[n]) # D(0)
        /\ Len(Chain) <= Cardinality(AllNodes)
        /\ is_end(node_next[Chain[Len(Chain)]])

\* resize(0) has returned on a table that was created with two or more
\* buckets, and the table has one bucket
C37_Witness ==
    /\ NewReturned
    /\ th[Resizer].init_size >= 2
    /\ th[Resizer].new_size = 0
    /\ th[Resizer].pc = "idle"
    /\ th[Resizer].caller = "none"
    /\ size = MIN_TABLE_SIZE
    /\ tbl[1] = "freed"

\* ------------------------------------------------------------------------
\* C38: synchronize_rcu returns
\* ------------------------------------------------------------------------
\* the threads between internal_urcu_lock and internal_urcu_unlock
InsideUrcuMutex ==
    {t \in Threads : uth[t].pc \notin {"idle", "lock", "read_lock_store"}}

UrcuSerialized ==
    /\ Cardinality(InsideUrcuMutex) <= 1
    /\ \A t \in InsideUrcuMutex : urcu_mutex = t

\* C38: when every reader inside a critical section eventually leaves it, a
\* synchronize_rcu called outside any critical section returns, even with
\* readers that enter new critical sections for ever; synchronize_rcu,
\* register and unregister run one at a time under the mutex, and every
\* register and unregister call returns
C38_SynchronizeReturns ==
    /\ []UrcuSerialized
    /\ \A t \in Writers : (uth[t].op = "synchronize") ~> (uth[t].op = "none")
    /\ \A t \in Readers : (uth[t].pc = "lock") ~> (uth[t].pc = "idle")

\* the second wait of a synchronize_rcu that waited for a critical section
\* goes on while a reader is inside a critical section it entered after a
\* flip, and the other reader spins on the mutex
C38_Witness ==
    /\ uth[Resizer].op = "synchronize"
    /\ uth[Resizer].pc = "wait"
    /\ uth[Resizer].phase = 2
    /\ uth[Resizer].waited # {}
    /\ uth[Resizer].entered # {}
    /\ \E r \in Readers : InCS(r) /\ ~rcu_old_gp_ongoing(r)
    /\ \E r \in Readers : uth[r].pc = "lock"

\* ------------------------------------------------------------------------
\* C39: resize_initiated is backed by a resize
\* ------------------------------------------------------------------------
\* thread t is in cds_lfht_resize or in do_resize_cb and has not yet left the
\* loop of _do_cds_lfht_resize
LoopAhead(t) ==
    /\ th[t].caller \in {"resize", "cb"}
    /\ th[t].pc \notin {"rs_test", "resize_unlock", "resize_online",
                        "cb_unlock", "cb_online", "cb_dec"}

InitiatedBacked ==
    (resize_initiated = 1 /\ in_progress_destroy = 0)
        => \/ cb_queue # <<>>
           \/ \E t \in Threads : LoopAhead(t)

\* C39: while no destroy has started, resize_initiated = 1 implies that a
\* resize callback is queued or that a thread is in, or on its way into, the
\* loop of _do_cds_lfht_resize; and a flag that is set is cleared again
C39_InitiatedBacked ==
    /\ []InitiatedBacked
    /\ (resize_initiated = 1) ~> (resize_initiated = 0)

\* the lazy trigger has stored resize_initiated = 1 and its callback waits in
\* the queue for the trigger's critical section to end, while no thread is in
\* a resize
C39_Witness ==
    /\ resize_initiated = 1
    /\ Len(cb_queue) = 1
    /\ Head(cb_queue) = {"w1"}
    /\ rcu_nest["w1"] > 0
    /\ th["w1"].pc \notin {"lazy_call_rcu", "lazy_set_initiated"}
    /\ \A t \in Threads : th[t].caller \notin {"resize", "cb"}

\* ------------------------------------------------------------------------
\* C40: the reader registry
\* ------------------------------------------------------------------------
\* the threads whose urcu_add_reader has run and whose urcu_remove_reader has
\* not
RegisteredNow ==
    {t \in DOMAIN uth :
        \/ uth[t].op = "register" /\ uth[t].pc = "unlock"
        \/ /\ uth[t].life = "registered"
           /\ ~(uth[t].op = "unregister" /\ uth[t].pc = "unlock")}

\* C40: the entries 0 .. num_readers - 1 of the registry are the threads that
\* are registered now, each of them once and each with the address of its own
\* urcu_active_readers, and the array has room for them
C40_RegistryExact ==
    /\ {registry[i].tid : i \in 1 .. num_readers} = RegisteredNow
    /\ \A i, j \in 1 .. num_readers :
          registry[i].tid = registry[j].tid => i = j
    /\ \A i \in 1 .. num_readers :
          registry[i].urcu_active_readers = registry[i].tid
    /\ num_readers <= alloc_readers

\* the array has grown to twice INIT_NUM_THREADS entries, a thread has
\* unregistered since, and the threads that are left fill the first
\* INIT_NUM_THREADS entries
C40_Witness ==
    /\ alloc_readers = 2 * INIT_NUM_THREADS
    /\ num_readers = INIT_NUM_THREADS
    /\ \E t \in DOMAIN uth : uth[t].life = "gone"
    /\ urcu_mutex = "none"

============================================================================
